---- MODULE Spec2Model ----
(***************************************************************************)
(* The RAG answer pipeline of kamosah/olympus (apps/api):                  *)
(*   app/routes/thread_stream.py   generate_sse_events                     *)
(*   app/services/ai_agent.py      AIAgentService.process_thread_stream,   *)
(*                                 process_query, _save_query_to_db        *)
(*   app/agents/thread_agent.py    retrieve_context, trim_context_to_budget*)
(*                                 generate_response(_streaming),          *)
(*                                 extract_citations, add_citations        *)
(*   app/services/citation_service.py  calculate_overall_confidence,       *)
(*                                 deduplicate_citations,                  *)
(*                                 rank_citations_by_relevance,            *)
(*                                 detect_hallucinations                   *)
(*   app/services/chunking_service.py  ChunkingService.chunk_text          *)
(*                                                                         *)
(* Text is a sequence of one-character strings.  Similarity and confidence *)
(* scores are integers in units of 1/10000.  A Python value that may be    *)
(* None is a record [some, val].  A dict whose keys may be missing is a    *)
(* TLA+ record whose DOMAIN is the set of keys present.                    *)
(***************************************************************************)
EXTENDS Integers, Sequences, FiniteSets, TLC

(***************************************************************************)
(* Bounds of the model                                                     *)
(***************************************************************************)
\* most chunks the language model streams in one generation
MaxChunks == 2
\* most results the vector search returns in the model (the code asks for 5)
MaxResults == 2

(***************************************************************************)
(* Python values                                                           *)
(***************************************************************************)
None == [some |-> FALSE, val |-> <<>>]
Some(v) == [some |-> TRUE, val |-> v]
\* Python truthiness of an optional list: None and [] are both falsy
Truthy(opt) == opt.some /\ Len(opt.val) > 0
\* len(x) if x else 0
LenOrZero(opt) == IF Truthy(opt) THEN Len(opt.val) ELSE 0
\* dict.get(key, default)
Get(d, key, default) == IF key \in DOMAIN d THEN d[key] ELSE default

RECURSIVE Concat(_)
Concat(seqs) == IF seqs = <<>> THEN <<>> ELSE Head(seqs) \o Concat(Tail(seqs))

RECURSIVE SumSeq(_)
SumSeq(s) == IF s = <<>> THEN 0 ELSE Head(s) + SumSeq(Tail(s))

Min(a, b) == IF a <= b THEN a ELSE b
Max(a, b) == IF a >= b THEN a ELSE b

(***************************************************************************)
(* thread_agent.py: the context budget                                     *)
(***************************************************************************)
MAX_CONTEXT_WINDOW == 8000
MAX_RESPONSE_TOKENS == 2000
SYSTEM_PROMPT_OVERHEAD == 200
FEW_SHOT_OVERHEAD == 400
QUERY_OVERHEAD == 100
SAFETY_MARGIN == 200
MAX_CONTEXT_TOKENS ==
    MAX_CONTEXT_WINDOW - MAX_RESPONSE_TOKENS - SYSTEM_PROMPT_OVERHEAD
        - FEW_SHOT_OVERHEAD - QUERY_OVERHEAD - SAFETY_MARGIN

\* The chunk texts of the model and what the tokenizer counts for each
\* (tiktoken is a collaborator: its count is a fixed function of the text).
TokenTable == [c1 |-> 3000, c2 |-> 2000, c3 |-> 6000, p1 |-> 50]
count_tokens(text) == TokenTable[text]

\* The SearchResult rows the vector search can return.  search_similar_chunks
\* is called with similarity_threshold=0.4, so every score is >= 4000.
SimilarityFloor == 4000
Rows ==
    { [chunk_text |-> "c1", document_id |-> "d1", document_title |-> "doc1",
       chunk_index |-> 0, similarity_score |-> 9000, page_number |-> 1,
       start_char |-> 0, end_char |-> 10],
      [chunk_text |-> "c2", document_id |-> "d1", document_title |-> "doc1",
       chunk_index |-> 1, similarity_score |-> 4500, page_number |-> 2,
       start_char |-> 10, end_char |-> 20],
      [chunk_text |-> "c3", document_id |-> "d2", document_title |-> "doc2",
       chunk_index |-> 0, similarity_score |-> 4500, page_number |-> 1,
       start_char |-> 0, end_char |-> 5] }
Pool == { r \in Rows : r.similarity_score >= SimilarityFloor }

\* every list of distinct rows, in any order, of at most MaxResults rows
SearchOutcomes ==
    { s \in UNION { [1..n -> Pool] : n \in 0..MaxResults } :
        \A i, j \in 1..Len(s) : i # j => s[i] # s[j] }

\* paired.sort(key=similarity_score, reverse=True): stable, descending
RECURSIVE InsertDesc(_, _)
InsertDesc(x, sorted) ==
    IF sorted = <<>> THEN <<x>>
    ELSE IF Head(sorted)[2].similarity_score >= x[2].similarity_score
         THEN <<Head(sorted)>> \o InsertDesc(x, Tail(sorted))
         ELSE <<x>> \o sorted

RECURSIVE SortDesc(_)
SortDesc(paired) ==
    IF paired = <<>> THEN <<>>
    ELSE LET n == Len(paired)
         IN InsertDesc(paired[n], SortDesc(SubSeq(paired, 1, n - 1)))

\* the greedy loop with continue in place of break
RECURSIVE TakeAllThatFit(_, _, _)
TakeAllThatFit(items, current_tokens, max_tokens) ==
    IF items = <<>> THEN <<>>
    ELSE LET chunk_tokens == count_tokens(Head(items)[1])
         IN IF current_tokens + chunk_tokens <= max_tokens
            THEN <<Head(items)>> \o
                 TakeAllThatFit(Tail(items), current_tokens + chunk_tokens, max_tokens)
            ELSE TakeAllThatFit(Tail(items), current_tokens, max_tokens)
\* the greedy loop of trim_context_to_budget: take while it fits, break at the
\* first element that does not
RECURSIVE TakeWhileFits(_, _, _)
TakeWhileFits(items, current_tokens, max_tokens) ==
    IF items = <<>> THEN <<>>
    ELSE LET chunk_tokens == count_tokens(Head(items)[1])
         IN IF current_tokens + chunk_tokens <= max_tokens
            THEN <<Head(items)>> \o
                 TakeWhileFits(Tail(items), current_tokens + chunk_tokens, max_tokens)
            ELSE <<>>

\* trim_context_to_budget that always keeps the first chunk
trim_context_keeping_first(chunks, search_results, max_tokens) ==
    IF chunks = <<>> THEN <<(<<>>), search_results>>
    ELSE <<(<<chunks[1]>>), search_results>>
\* returns <<trimmed_chunks, trimmed_search_results>>
trim_context_to_budget(chunks, search_results, max_tokens) ==
    LET total_tokens == SumSeq([i \in 1..Len(chunks) |-> count_tokens(chunks[i])])
    IN IF chunks = <<>> THEN <<(<<>>), search_results>>
       ELSE IF total_tokens <= max_tokens THEN <<chunks, search_results>>
       ELSE IF Truthy(search_results)
       THEN LET paired == [i \in 1..Len(chunks) |-> <<chunks[i], search_results.val[i]>>]
                taken == TakeWhileFits(SortDesc(paired), 0, max_tokens)
                selected_chunks == [i \in 1..Len(taken) |-> taken[i][1]]
                selected_results == [i \in 1..Len(taken) |-> taken[i][2]]
            IN <<selected_chunks,
                 IF Len(selected_results) > 0 THEN Some(selected_results) ELSE None>>
       ELSE LET items == [i \in 1..Len(chunks) |-> <<chunks[i]>>]
                taken == TakeWhileFits(items, 0, max_tokens)
            IN <<[i \in 1..Len(taken) |-> taken[i][1]], None>>

(***************************************************************************)
(* thread_agent.py: citation extraction                                    *)
(***************************************************************************)
Digits == {"0", "1", "2", "3", "4", "5", "6", "7", "8", "9"}
DigitVal == [c \in Digits |->
    CASE c = "0" -> 0 [] c = "1" -> 1 [] c = "2" -> 2 [] c = "3" -> 3
      [] c = "4" -> 4 [] c = "5" -> 5 [] c = "6" -> 6 [] c = "7" -> 7
      [] c = "8" -> 8 [] c = "9" -> 9]

\* int(match) of a run of digits
RECURSIVE IntOf(_)
IntOf(ds) ==
    IF ds = <<>> THEN 0
    ELSE 10 * IntOf(SubSeq(ds, 1, Len(ds) - 1)) + DigitVal[ds[Len(ds)]]

\* the end of the run of digits of text that starts at position i (i - 1 if none)
RECURSIVE DigitsEnd(_, _)
DigitsEnd(text, i) ==
    IF i <= Len(text) /\ text[i] \in Digits THEN DigitsEnd(text, i + 1) ELSE i - 1

\* re.findall(r"\[(\d+)\]", response) from position i: the matched digit runs,
\* left to right, matches not overlapping; the scan moves to the next "["
RECURSIVE FindAll(_, _)
FindAll(text, i) ==
    LET opens == { k \in i..Len(text) : text[k] = "[" }
    IN IF opens = {} THEN <<>>
       ELSE LET o == CHOOSE k \in opens : \A m \in opens : k <= m
                e == DigitsEnd(text, o + 1)
            IN IF e >= o + 1 /\ e + 1 <= Len(text) /\ text[e + 1] = "]"
               THEN <<SubSeq(text, o + 1, e)>> \o FindAll(text, e + 2)
               ELSE FindAll(text, o + 1)

\* the dict built for one in-range marker
CitationData(citation_num, context, search_results) ==
    IF Truthy(search_results) /\ citation_num <= Len(search_results.val)
    THEN LET result == search_results.val[citation_num]
         IN [index |-> citation_num,
             text |-> context[citation_num],
             document_id |-> result.document_id,
             document_title |-> result.document_title,
             chunk_index |-> result.chunk_index,
             similarity_score |-> result.similarity_score,
             page_number |-> result.page_number,
             start_char |-> result.start_char,
             end_char |-> result.end_char]
    ELSE [index |-> citation_num, text |-> context[citation_num]]

RECURSIVE CitationsOf(_, _, _)
CitationsOf(matches, context, search_results) ==
    IF matches = <<>> THEN <<>>
    ELSE LET citation_num == IntOf(Head(matches))
             rest == CitationsOf(Tail(matches), context, search_results)
         IN IF 0 < citation_num /\ citation_num <= Len(context)
            THEN <<CitationData(citation_num, context, search_results)>> \o rest
            ELSE rest

\* first occurrences only
RECURSIVE Unique(_, _)
Unique(citations, seen) ==
    IF citations = <<>> THEN <<>>
    ELSE IF Head(citations).index \in seen
         THEN Unique(Tail(citations), seen)
         ELSE <<Head(citations)>>
                  \o Unique(Tail(citations), seen \cup {Head(citations).index})
\* extract_citations that reports each cited chunk once
extract_citations_unique(response, context, search_results) ==
    Unique(CitationsOf(FindAll(response, 1), context, search_results), {})
extract_citations(response, context, search_results) ==
    CitationsOf(FindAll(response, 1), context, search_results)

\* add_citations: the citations it stores in the state
add_citations(st) ==
    IF st.response.some /\ Len(st.response.val) > 0 /\ Len(st.context) > 0
    THEN extract_citations(st.response.val, st.context,
                           Get(st, "search_results", None))
    ELSE <<>>

(***************************************************************************)
(* citation_service.py: calculate_overall_confidence                       *)
(***************************************************************************)
\* np.exp(np.arange(3)) times 1000: e^0, e^1, e^2
ExpWeights == <<1000, 2718, 7389>>
\* np.std(similarities) < 0.05 on n scores X/10000:
\*   n*sum(X^2) - sum(X)^2 < 0.0025 * n^2 * 10^8
LowVariance(similarities) ==
    LET n == Len(similarities)
        sq == SumSeq([i \in 1..n |-> similarities[i] * similarities[i]])
        s == SumSeq(similarities)
    IN n * sq - s * s < 250000 * n * n

\* calculate_overall_confidence without the clamp to [0.0, 1.0]
calculate_overall_confidence_unclamped(search_results, num_citations_used) ==
    IF search_results = <<>> THEN 0
    ELSE LET top_results == SubSeq(search_results, 1, Min(3, Len(search_results)))
             n == Len(top_results)
             similarities == [i \in 1..n |-> top_results[i].similarity_score]
             wsum == SumSeq([i \in 1..n |-> ExpWeights[i]])
             wdot == SumSeq([i \in 1..n |-> ExpWeights[i] * similarities[i]])
             variance_penalty ==
                 IF n > 1 /\ LowVariance(similarities) THEN 1000 ELSE 0
             den == 3 * wsum
             num == 3 * wdot + Min(num_citations_used, 3) * 1000 * wsum
                      - variance_penalty * den
         IN (2 * num + den) \div (2 * den)

\* the similarity scores of search_results[:3]
top_similarities(search_results) ==
    [i \in 1..Min(3, Len(search_results)) |-> search_results[i].similarity_score]

\* np.exp(np.arange(len(similarities)))
weights(n) == SubSeq(ExpWeights, 1, n)

variance_penalty(similarities) ==
    IF Len(similarities) > 1 /\ LowVariance(similarities) THEN 1000 ELSE 0

\* avg_similarity + coverage_bonus - penalty, clamped and rounded to 4 places
confidence_with(similarities, num_citations_used, penalty) ==
    LET n == Len(similarities)
        wsum == SumSeq(weights(n))
        wdot == SumSeq([i \in 1..n |-> weights(n)[i] * similarities[i]])
        \* everything over the common denominator 3 * wsum
        den == 3 * wsum
        num == 3 * wdot + Min(num_citations_used, 3) * 1000 * wsum
                 - penalty * den
        clamped == Max(0, Min(10000 * den, num))
    IN (2 * clamped + den) \div (2 * den)

calculate_overall_confidence(search_results, num_citations_used) ==
    IF search_results = <<>> THEN 0
    ELSE LET similarities == top_similarities(search_results)
         IN confidence_with(similarities, num_citations_used,
                            variance_penalty(similarities))

(***************************************************************************)
(* ai_agent.py: the confidence threshold                                   *)
(***************************************************************************)
CONFIDENCE_THRESHOLD == 5000
\* thread_agent.py NO_CONTEXT_FALLBACK_MESSAGE, its first words
NO_CONTEXT_FALLBACK_MESSAGE == <<"I", " ", "d", "o", "n", "'", "t", " ", "h", "a", "v", "e">>
LOW_CONFIDENCE_MESSAGE == NO_CONTEXT_FALLBACK_MESSAGE

\* _apply_confidence_threshold: defined by the service, called by nothing
apply_confidence_threshold(response, confidence_score, citations) ==
    IF confidence_score < CONFIDENCE_THRESHOLD
    THEN <<LOW_CONFIDENCE_MESSAGE, (<<>>)>>
    ELSE <<response, citations>>

(***************************************************************************)
(* thread_stream.py: the error event of generate_sse_events                *)
(***************************************************************************)
UpperToLower ==
    [c \in {"A", "B", "C", "D", "E", "F", "G", "H", "I", "J", "K", "L", "M",
            "N", "O", "P", "Q", "R", "S", "T", "U", "V", "W", "X", "Y", "Z"} |->
     CASE c = "A" -> "a" [] c = "B" -> "b" [] c = "C" -> "c" [] c = "D" -> "d"
       [] c = "E" -> "e" [] c = "F" -> "f" [] c = "G" -> "g" [] c = "H" -> "h"
       [] c = "I" -> "i" [] c = "J" -> "j" [] c = "K" -> "k" [] c = "L" -> "l"
       [] c = "M" -> "m" [] c = "N" -> "n" [] c = "O" -> "o" [] c = "P" -> "p"
       [] c = "Q" -> "q" [] c = "R" -> "r" [] c = "S" -> "s" [] c = "T" -> "t"
       [] c = "U" -> "u" [] c = "V" -> "v" [] c = "W" -> "w" [] c = "X" -> "x"
       [] c = "Y" -> "y" [] c = "Z" -> "z"]

\* str.lower()
Lower(text) ==
    [i \in 1..Len(text) |->
        IF text[i] \in DOMAIN UpperToLower THEN UpperToLower[text[i]] ELSE text[i]]

\* pattern in text
Contains(text, pattern) ==
    \E i \in 1..(Len(text) - Len(pattern) + 1) :
        SubSeq(text, i, i + Len(pattern) - 1) = pattern

P_rate_limit == <<"r", "a", "t", "e", " ", "l", "i", "m", "i", "t">>
P_openai == <<"o", "p", "e", "n", "a", "i">>
P_api == <<"a", "p", "i">>
P_database == <<"d", "a", "t", "a", "b", "a", "s", "e">>
P_connection == <<"c", "o", "n", "n", "e", "c", "t", "i", "o", "n">>

\* the messages the handler sends, each by its first sentence
RATE_LIMIT_MESSAGE ==
    <<"A", "P", "I", " ", "r", "a", "t", "e", " ", "l", "i", "m", "i", "t", " ",
      "e", "x", "c", "e", "e", "d", "e", "d", ".">>
API_ERROR_MESSAGE ==
    <<"A", "I", " ", "s", "e", "r", "v", "i", "c", "e", " ", "t", "e", "m", "p",
      "o", "r", "a", "r", "i", "l", "y", " ", "u", "n", "a", "v", "a", "i", "l",
      "a", "b", "l", "e", ".">>
DATABASE_ERROR_MESSAGE ==
    <<"D", "a", "t", "a", "b", "a", "s", "e", " ", "c", "o", "n", "n", "e", "c",
      "t", "i", "o", "n", " ", "e", "r", "r", "o", "r", ".">>
TIMEOUT_MESSAGE ==
    <<"T", "h", "r", "e", "a", "d", " ", "p", "r", "o", "c", "e", "s", "s", "i",
      "n", "g", " ", "t", "i", "m", "e", "d", " ", "o", "u", "t", ".">>

\* except TimeoutError: the event it yields
TimeoutEvent ==
    [type |-> "error", message |-> TIMEOUT_MESSAGE, error_code |-> "TIMEOUT"]

\* except Exception with the provider test placed before the rate-limit test
CategorizedEventProviderFirst(e) ==
    LET error_message == e.msg
        lower == Lower(error_message)
    IN IF Contains(lower, P_openai) \/ Contains(lower, P_api)
       THEN [type |-> "error", message |-> API_ERROR_MESSAGE,
             error_code |-> "API_ERROR"]
       ELSE IF Contains(lower, P_rate_limit)
       THEN [type |-> "error", message |-> RATE_LIMIT_MESSAGE,
             error_code |-> "RATE_LIMIT"]
       ELSE IF Contains(lower, P_database) \/ Contains(lower, P_connection)
       THEN [type |-> "error", message |-> DATABASE_ERROR_MESSAGE,
             error_code |-> "DATABASE_ERROR"]
       ELSE [type |-> "error", message |-> error_message,
             error_code |-> "UNKNOWN"]
\* except Exception as e: the event it yields
CategorizedEvent(e) ==
    LET error_message == e.msg
        lower == Lower(error_message)
    IN IF Contains(lower, P_rate_limit)
       THEN [type |-> "error", message |-> RATE_LIMIT_MESSAGE,
             error_code |-> "RATE_LIMIT"]
       ELSE IF Contains(lower, P_openai) \/ Contains(lower, P_api)
       THEN [type |-> "error", message |-> API_ERROR_MESSAGE,
             error_code |-> "API_ERROR"]
       ELSE IF Contains(lower, P_database) \/ Contains(lower, P_connection)
       THEN [type |-> "error", message |-> DATABASE_ERROR_MESSAGE,
             error_code |-> "DATABASE_ERROR"]
       ELSE [type |-> "error", message |-> error_message,
             error_code |-> "UNKNOWN"]

\* The exception classes of the model.  asyncio.timeout turns the cancellation
\* it delivers into TimeoutError; CancelledError is a BaseException.
ExceptionSubclasses == {"Exception", "ValueError", "TypeError", "TimeoutError"}

\* generate_sse_events without its except TimeoutError clause
ErrorEventForUncategorized(e) == CategorizedEvent(e)
\* the two except clauses of generate_sse_events, in order
ErrorEventFor(e) ==
    IF e.type = "TimeoutError" THEN TimeoutEvent ELSE CategorizedEvent(e)

\* f"data: {json.dumps(event)}\n\n": one SSE frame per event
SseFrame(event) == [data |-> event]

\* What a collaborator (database, vector search, language model) can raise
M_rate ==
    <<"O", "p", "e", "n", "A", "I", " ", "r", "a", "t", "e", " ", "l", "i", "m",
      "i", "t">>
M_api == <<"A", "P", "I", " ", "d", "o", "w", "n">>
M_db ==
    <<"D", "a", "t", "a", "b", "a", "s", "e", " ", "c", "o", "n", "n", "e", "c",
      "t", "i", "o", "n", " ", "l", "o", "s", "t">>
M_boom == <<"b", "o", "o", "m">>
M_timed == <<"t", "i", "m", "e", "d", " ", "o", "u", "t">>
M_not_found ==
    <<"T", "h", "r", "e", "a", "d", " ", "n", "o", "t", " ", "f", "o", "u", "n",
      "d">>
M_len_none == <<"l", "e", "n", "(", "N", "o", "n", "e", ")">>

CollaboratorErrors ==
    { [type |-> "Exception", msg |-> M_rate],
      [type |-> "Exception", msg |-> M_api],
      [type |-> "Exception", msg |-> M_db],
      [type |-> "Exception", msg |-> M_boom],
      [type |-> "TimeoutError", msg |-> M_timed] }

(***************************************************************************)
(* The state                                                               *)
(*   inv          one record per invocation: the arguments, the locals of  *)
(*                the running coroutine, where it is suspended (pc), what  *)
(*                it has yielded or returned, and what it called           *)
(*   db_threads   the committed rows of table threads, by id               *)
(*   db_messages  the committed rows of table messages, in insertion order *)
(***************************************************************************)
VARIABLES inv, db_threads, db_messages
vars == <<inv, db_threads, db_messages>>

Query == <<"q", "?">>
H_user == <<"h", "1">>
H_assistant == <<"h", "2">>
ExistingThread == "t1"
UnknownThread == "t9"
NewThreadId(i) == IF i = 1 THEN "n1" ELSE "n2"

\* what the language model can stream as one chunk: an empty delta, plain
\* text, a marker of the first context chunk, a marker no context chunk has
LLMChunks == { <<>>, <<"a">>, <<"[", "1", "]">>, <<"[", "3", "]">> }
\* what the language model can answer in one piece (llm.ainvoke)
LLMAnswers ==
    { Concat(s) : s \in UNION { [1..n -> LLMChunks] : n \in 0..MaxChunks } }

\* the contexts a caller can pass
CallerContexts == { None, Some(<<"p1">>) }

\* stream_thread_response: the requests the route hands to generate_sse_events
stream_thread_response(a) ==
    /\ Len(a.query) > 0
    /\ ~(a.save_to_db /\ ~a.user_id)
    /\ ~(a.save_to_db /\ ~a.space_id /\ ~a.organization_id)

ArgsOf(entry) ==
    { a \in [entry : {entry}, query : {Query}, db : BOOLEAN,
             organization_id : BOOLEAN, space_id : BOOLEAN, user_id : BOOLEAN,
             context : CallerContexts, save_to_db : BOOLEAN,
             thread_id : {"None", ExistingThread, UnknownThread}] :
        CASE entry = "generate_sse_events" ->
                 \* db is injected; context and thread_id are not passed on
                 /\ a.db /\ a.context = None /\ a.thread_id = "None"
                 /\ stream_thread_response(a)
          [] entry = "process_query" ->
                 \* process_query has no organization_id and no thread_id
                 ~a.organization_id /\ a.thread_id = "None"
          [] OTHER -> TRUE }

Entries == {"generate_sse_events", "process_thread_stream", "process_query"}

NewInvocation(a) ==
    [pc |-> "call", args |-> a, saved_thread_id |-> "None",
     conversation_history |-> <<>>, state |-> <<>>, full_response |-> <<>>,
     chunks |-> 0, fragments |-> <<>>, final |-> None, events |-> <<>>,
     sse |-> <<>>, raised |-> None, result |-> None, session |-> <<>>,
     llm_messages |-> None, search_calls |-> 0, trace |-> <<>>,
     deadline_elapsed |-> FALSE, faults |-> {}]

InitialThreads ==
    ExistingThread :>
        [query_text |-> H_user, result |-> H_assistant, confidence_score |-> 8500,
         sources |-> <<>>, agent_steps |-> <<>>]
InitialMessages ==
    << [thread_id |-> ExistingThread, message_role |-> "user",
        content |-> H_user, message_metadata |-> <<>>],
       [thread_id |-> ExistingThread, message_role |-> "assistant",
        content |-> H_assistant, message_metadata |-> <<>>] >>

Init ==
    /\ \E e \in Entries : \E a \in ArgsOf(e) : inv = (1 :> NewInvocation(a))
    /\ db_threads = InitialThreads
    /\ db_messages = InitialMessages

(***************************************************************************)
(* The session: db.add, db.execute(update), db.commit                      *)
(***************************************************************************)
RECURSIVE CommittedThreads(_, _)
CommittedThreads(threads, session) ==
    IF session = <<>> THEN threads
    ELSE LET o == Head(session)
             next ==
                 CASE o.kind = "thread" -> (o.id :> o.row) @@ threads
                   [] o.kind = "update" /\ o.id \in DOMAIN threads ->
                        [threads EXCEPT ![o.id] =
                            [@ EXCEPT !.result = o.row.result,
                                      !.confidence_score = o.row.confidence_score,
                                      !.sources = o.row.sources,
                                      !.agent_steps = o.row.agent_steps]]
                   [] OTHER -> threads
         IN CommittedThreads(next, Tail(session))

RECURSIVE CommittedMessages(_, _)
CommittedMessages(messages, session) ==
    IF session = <<>> THEN messages
    ELSE LET o == Head(session)
         IN CommittedMessages(
                IF o.kind = "message" THEN Append(messages, o.row) ELSE messages,
                Tail(session))

\* thread_record.messages: the rows of one thread, in order
RECURSIVE MessagesOf(_, _)
MessagesOf(messages, thread_id) ==
    IF messages = <<>> THEN <<>>
    ELSE IF Head(messages).thread_id = thread_id
         THEN <<Head(messages)>> \o MessagesOf(Tail(messages), thread_id)
         ELSE MessagesOf(Tail(messages), thread_id)

UserMessage(thread_id, query) ==
    [kind |-> "message",
     row |-> [thread_id |-> thread_id, message_role |-> "user",
              content |-> query, message_metadata |-> <<>>]]

\* Thread(... result="", confidence_score=0.0, sources={citations: [], count: 0},
\* agent_steps={}): sources is held as its citations list
NewThread(id, query) ==
    [kind |-> "thread", id |-> id,
     row |-> [query_text |-> query, result |-> <<>>, confidence_score |-> 0,
              sources |-> <<>>, agent_steps |-> <<>>]]

(***************************************************************************)
(* Steps of the pipeline, as functions of the invocation record l          *)
(***************************************************************************)
Mark(l, what) == [l EXCEPT !.trace = Append(@, what)]

\* yield event: to the caller and, under generate_sse_events, on as a frame
Yield(l, event) ==
    [l EXCEPT !.events = Append(@, event),
              !.sse = IF l.args.entry = "generate_sse_events"
                      THEN Append(@, SseFrame(event)) ELSE @,
              !.trace = Append(@, event.type)]

\* what generate_sse_events yields for an exception that reaches it
error_frames_dropped(e) == <<>>
error_frames(e) == <<SseFrame(ErrorEventFor(e))>>

\* an exception leaves the pipeline: generate_sse_events turns it into the
\* error frame; the other entry points let it reach their caller
Propagate(l, e) ==
    IF l.args.entry = "generate_sse_events"
    THEN [l EXCEPT !.pc = "closed", !.sse = @ \o error_frames(e)]
    ELSE [l EXCEPT !.pc = "raised", !.raised = Some(e)]

\* the AgentState dict both entry points build
initial_state(a) ==
    [query |-> a.query,
     context |-> IF Truthy(a.context) THEN a.context.val ELSE <<>>,
     response |-> None,
     citations |-> <<>>,
     db |-> a.db,
     space_id |-> a.space_id,
     search_results |-> None]

\* the prompt of the current turn
Prompt(st) ==
    IF Len(st.context) > 0
    THEN [template |-> "context", context |-> st.context, query |-> st.query]
    ELSE [template |-> "no_context", query |-> st.query,
          fallback |-> NO_CONTEXT_FALLBACK_MESSAGE]

\* the history mapped newest first
RECURSIVE HistoryMessagesReversed(_)
HistoryMessagesReversed(history) ==
    IF history = <<>> THEN <<>>
    ELSE LET msg == Head(history)
             role == Get(msg, "role", "None")
             content == Get(msg, "content", <<>>)
             rest == HistoryMessagesReversed(Tail(history))
         IN IF role = "user"
            THEN rest \o <<[type |-> "human", content |-> [text |-> content]]>>
            ELSE IF role = "assistant"
            THEN rest \o <<[type |-> "ai", content |-> [text |-> content]]>>
            ELSE rest
RECURSIVE HistoryMessages(_)
HistoryMessages(history) ==
    IF history = <<>> THEN <<>>
    ELSE LET msg == Head(history)
             role == Get(msg, "role", "None")
             content == Get(msg, "content", <<>>)
             rest == HistoryMessages(Tail(history))
         IN IF role = "user"
            THEN <<[type |-> "human", content |-> [text |-> content]]>> \o rest
            ELSE IF role = "assistant"
            THEN <<[type |-> "ai", content |-> [text |-> content]]>> \o rest
            ELSE rest

\* the messages generate_response and generate_response_streaming send
build_messages(st) ==
    <<[type |-> "system", content |-> [template |-> "SYSTEM_PROMPT"]]>>
        \o HistoryMessages(Get(st, "conversation_history", <<>>))
        \o <<[type |-> "human", content |-> Prompt(st)]>>

\* retrieve_context, db is None
retrieve_context_no_db(st) ==
    [st EXCEPT !.context = <<>>, !.search_results = Some(<<>>)]

\* retrieve_context that trims the search results only
retrieve_context_results_trimmed(st, search_results) ==
    LET context_chunks ==
            [k \in 1..Len(search_results) |-> search_results[k].chunk_text]
        trimmed == trim_context_to_budget(context_chunks, Some(search_results),
                                          MAX_CONTEXT_TOKENS)
    IN [st EXCEPT !.context = context_chunks, !.search_results = trimmed[2]]
\* retrieve_context, the search returned
retrieve_context_ok(st, search_results) ==
    LET context_chunks ==
            [k \in 1..Len(search_results) |-> search_results[k].chunk_text]
        trimmed == trim_context_to_budget(context_chunks, Some(search_results),
                                          MAX_CONTEXT_TOKENS)
    IN [st EXCEPT !.context = trimmed[1], !.search_results = trimmed[2]]

\* retrieve_context, except Exception
retrieve_context_uncaught(e) == FALSE
retrieve_context_catches(e) == e.type \in ExceptionSubclasses
retrieve_context_failed(st) ==
    [st EXCEPT !.context = <<>>, !.search_results = Some(<<>>)]

\* call the language model: streaming suspends on the first chunk, batch on
\* the whole answer
EnterGenerate(l) ==
    [Mark(l, "llm_call") EXCEPT
        !.llm_messages = Some(build_messages(l.state)),
        !.pc = IF l.args.entry = "process_query" THEN "invoke" ELSE "stream"]

\* call retrieve_context
EnterRetrieve(l) ==
    IF ~l.state.db
    THEN EnterGenerate([l EXCEPT !.state = retrieve_context_no_db(@)])
    ELSE [Mark(l, "search") EXCEPT !.pc = "search", !.search_calls = @ + 1]

\* process_thread_stream, steps 2 and 3
BeginPipeline(l) ==
    LET l1 == [l EXCEPT !.state = initial_state(l.args)]
    IN IF ~Truthy(l.args.context) THEN EnterRetrieve(l1) ELSE EnterGenerate(l1)

\* the loop body of step 4
\* the loop body with full_response kept in one buffer of the service object
on_token_shared(l, token) ==
    Yield([l EXCEPT !.full_response =
                        Concat([j \in DOMAIN inv |-> inv[j].full_response])
                            \o token],
          [type |-> "token", content |-> token])
on_token_buffered(l, token) == [l EXCEPT !.full_response = @ \o token]
on_token(l, token) ==
    Yield([l EXCEPT !.full_response = @ \o token],
          [type |-> "token", content |-> token])

\* "confidence threshold filtering is disabled": <<final_response, final_citations>>
final_answer_gated(response, confidence_score, citations) ==
    apply_confidence_threshold(response, confidence_score, citations)
final_answer(response, confidence_score, citations) == <<response, citations>>

\* confidence_score of both entry points
confidence_of(st, citations) ==
    IF Truthy(st.search_results)
    THEN calculate_overall_confidence(st.search_results.val, Len(citations))
    ELSE 0

AgentSteps(st) ==
    [context_count |-> Len(Get(st, "context", <<>>)),
     search_results_count |-> LenOrZero(st.search_results)]

\* step 7 without the update of the thread's legacy fields
AssistantWritesMessageOnly(l, st, f) ==
    << [kind |-> "message",
        row |-> [thread_id |-> l.saved_thread_id, message_role |-> "assistant",
                 content |-> f.response,
                 message_metadata |->
                     [citations |-> f.citations,
                      confidence_score |-> f.confidence_score,
                      context_count |-> Len(Get(st, "context", <<>>)),
                      search_results_count |-> LenOrZero(st.search_results)]]] >>
\* step 7: the assistant message and the update of the thread's legacy fields
AssistantWrites(l, st, f) ==
    << [kind |-> "message",
        row |-> [thread_id |-> l.saved_thread_id, message_role |-> "assistant",
                 content |-> f.response,
                 message_metadata |->
                     [citations |-> f.citations,
                      confidence_score |-> f.confidence_score,
                      context_count |-> Len(Get(st, "context", <<>>)),
                      search_results_count |-> LenOrZero(st.search_results)]]],
       [kind |-> "update", id |-> l.saved_thread_id,
        row |-> [result |-> f.response, confidence_score |-> f.confidence_score,
                 sources |-> f.citations, agent_steps |-> AgentSteps(st)]] >>

DoneEvent(l, st, f) ==
    [type |-> "done",
     context_used |-> Len(st.context) > 0,
     num_sources |-> LenOrZero(st.search_results),
     confidence_score |-> f.confidence_score,
     thread_id |-> l.saved_thread_id]

(***************************************************************************)
(* Actions.  pc names the await the coroutine is suspended at; an action   *)
(* is the completion of that await and the code up to the next one.        *)
(***************************************************************************)
DbAwaits ==
    {"load_thread", "commit_user", "resolve_org", "commit_thread",
     "refresh_thread", "update_thread", "commit_assistant",
     "q_resolve_org", "q_commit", "q_refresh"}
LlmAwaits == {"stream", "invoke"}
Awaits == DbAwaits \cup LlmAwaits \cup {"search"}
Finished == {"returned", "raised", "closed"}

Set(i, l) == inv' = [inv EXCEPT ![i] = l]
DbUnchanged == UNCHANGED <<db_threads, db_messages>>

\* db.commit(): the session's pending writes become rows
Commit(l) ==
    /\ db_threads' = CommittedThreads(db_threads, l.session)
    /\ db_messages' = CommittedMessages(db_messages, l.session)

\* process_thread_stream is entered (directly or under generate_sse_events):
\* step 1 up to its first await
CallStream(i) ==
    LET l == inv[i]
        a == l.args
    IN /\ l.pc = "call"
       /\ a.entry \in {"generate_sse_events", "process_thread_stream"}
       /\ DbUnchanged
       /\ IF a.thread_id # "None" /\ a.db
          THEN Set(i, [l EXCEPT !.pc = "load_thread"])
          ELSE IF a.save_to_db /\ a.db /\ a.user_id
                  /\ (a.space_id \/ a.organization_id)
          THEN IF ~a.organization_id /\ a.space_id
               THEN Set(i, [l EXCEPT !.pc = "resolve_org"])
               ELSE Set(i, [l EXCEPT !.pc = "commit_thread",
                                     !.session = <<NewThread(NewThreadId(i), a.query)>>])
          ELSE Set(i, BeginPipeline(l))

\* continuation: the select returned
LoadThread(i) ==
    LET l == inv[i]
        a == l.args
        rows == MessagesOf(db_messages, a.thread_id)
        history == [k \in 1..Len(rows) |->
                       [role |-> rows[k].message_role, content |-> rows[k].content]]
        l1 == [l EXCEPT !.saved_thread_id = a.thread_id,
                        !.conversation_history = history]
    IN /\ l.pc = "load_thread"
       /\ DbUnchanged
       /\ IF a.thread_id \notin DOMAIN db_threads
          THEN Set(i, Propagate(l, [type |-> "ValueError", msg |-> M_not_found]))
          ELSE IF a.save_to_db
          THEN Set(i, [l1 EXCEPT !.pc = "commit_user",
                                 !.session = <<UserMessage(a.thread_id, a.query)>>])
          ELSE Set(i, BeginPipeline(
                          Yield(l1, [type |-> "start", thread_id |-> a.thread_id])))

\* new thread: the organization of the space was selected
ResolveOrg(i) ==
    LET l == inv[i]
    IN /\ l.pc = "resolve_org"
       /\ DbUnchanged
       /\ Set(i, [l EXCEPT !.pc = "commit_thread",
                           !.session = <<NewThread(NewThreadId(i), l.args.query)>>])

\* new thread: the thread row was committed
CommitThread(i) ==
    LET l == inv[i]
    IN /\ l.pc = "commit_thread"
       /\ Commit(l)
       /\ Set(i, [Mark(l, "persist_thread") EXCEPT
                     !.pc = "refresh_thread", !.session = <<>>])

\* new thread: the row was refreshed; the user message is added
RefreshThread(i) ==
    LET l == inv[i]
        id == NewThreadId(i)
    IN /\ l.pc = "refresh_thread"
       /\ DbUnchanged
       /\ Set(i, [l EXCEPT !.pc = "commit_user", !.saved_thread_id = id,
                           !.session = <<UserMessage(id, l.args.query)>>])

\* the user message was committed; start is yielded; steps 2 and 3
CommitUser(i) ==
    LET l == inv[i]
        l1 == [Mark(l, "persist_user") EXCEPT !.session = <<>>]
    IN /\ l.pc = "commit_user"
       /\ Commit(l)
       /\ Set(i, BeginPipeline(
                     Yield(l1, [type |-> "start", thread_id |-> l.saved_thread_id])))

\* retrieve_context: the vector search returned
SearchReturn(i) ==
    LET l == inv[i]
    IN /\ l.pc = "search"
       /\ DbUnchanged
       /\ \E results \in SearchOutcomes :
            Set(i, EnterGenerate(
                       [l EXCEPT !.state = retrieve_context_ok(@, results)]))

\* retrieve_context: the vector search raised
SearchRaise(i) ==
    LET l == inv[i]
        l1 == [l EXCEPT !.faults = @ \cup {"search_raised"}]
    IN /\ l.pc = "search"
       /\ DbUnchanged
       /\ \E e \in CollaboratorErrors :
            IF retrieve_context_catches(e)
            THEN Set(i, EnterGenerate(
                            [l1 EXCEPT !.state = retrieve_context_failed(@)]))
            ELSE Set(i, Propagate(l1, e))

\* generate_response_streaming: the model streamed one chunk; an empty one
\* is skipped, any other is yielded to the loop of step 4
StreamChunk(i) ==
    LET l == inv[i]
    IN /\ l.pc = "stream"
       /\ l.chunks < MaxChunks
       /\ DbUnchanged
       /\ \E c \in LLMChunks :
            LET l1 == [l EXCEPT !.chunks = @ + 1]
            IN IF Len(c) > 0
               THEN Set(i, on_token([l1 EXCEPT !.fragments = Append(@, c)], c))
               ELSE Set(i, l1)

\* the stream ended: steps 5 and 6, the citations event, and step 7 up to its
\* await, or step 8
StreamEnd(i) ==
    LET l == inv[i]
        a == l.args
        st1 == [l.state EXCEPT !.response = Some(l.full_response)]
        st2 == [st1 EXCEPT !.citations = add_citations(st1)]
        score == confidence_of(st2, st2.citations)
        fa == final_answer(l.full_response, score, st2.citations)
        f == [response |-> fa[1], citations |-> fa[2], confidence_score |-> score]
        l1 == [Mark(Mark(l, "extract_citations"), "confidence") EXCEPT
                  !.state = st2, !.final = Some(f)]
        l2 == IF Len(f.citations) > 0
              THEN Yield(l1, [type |-> "citations", sources |-> f.citations,
                              confidence_score |-> score])
              ELSE l1
    IN /\ l.pc = "stream"
       /\ DbUnchanged
       /\ IF l.saved_thread_id # "None" /\ a.db /\ a.save_to_db
          THEN Set(i, [l2 EXCEPT !.pc = "update_thread",
                                 !.session = AssistantWrites(l, st2, f)])
          ELSE Set(i, [Yield(l2, DoneEvent(l, st2, f)) EXCEPT !.pc = "returned"])

\* step 7: the update statement was executed
UpdateThread(i) ==
    LET l == inv[i]
    IN /\ l.pc = "update_thread"
       /\ DbUnchanged
       /\ Set(i, [l EXCEPT !.pc = "commit_assistant"])

\* step 7: the commit returned; step 8
CommitAssistant(i) ==
    LET l == inv[i]
        l1 == [Mark(l, "persist_assistant") EXCEPT !.session = <<>>]
    IN /\ l.pc = "commit_assistant"
       /\ Commit(l)
       /\ Set(i, [Yield(l1, DoneEvent(l, l.state, l.final.val)) EXCEPT
                     !.pc = "returned"])

\* process_query is entered: the state, and agent.ainvoke runs the graph from
\* its entry point, the retrieve node
CallQuery(i) ==
    LET l == inv[i]
    IN /\ l.pc = "call"
       /\ l.args.entry = "process_query"
       /\ DbUnchanged
       /\ Set(i, EnterRetrieve([l EXCEPT !.state = initial_state(l.args)]))

response_data(st, f) ==
    [response |-> f.response,
     citations |-> f.citations,
     confidence_score |-> f.confidence_score,
     context_used |-> Len(st.context) > 0,
     num_sources |-> LenOrZero(st.search_results)]

\* generate_response: llm.ainvoke returned; the cite node; the rest of
\* process_query up to the await of _save_query_to_db, or the return
Invoke(i) ==
    LET l == inv[i]
        a == l.args
    IN /\ l.pc = "invoke"
       /\ DbUnchanged
       /\ \E r \in LLMAnswers :
            LET st1 == [l.state EXCEPT !.response = Some(r)]
                st2 == [st1 EXCEPT !.citations = add_citations(st1)]
                score == confidence_of(st2, st2.citations)
                fa == final_answer(r, score, st2.citations)
                f == [response |-> fa[1], citations |-> fa[2],
                      confidence_score |-> score]
                l1 == [Mark(Mark(l, "extract_citations"), "confidence") EXCEPT
                          !.state = st2, !.final = Some(f)]
            IN IF a.save_to_db /\ a.db /\ a.space_id /\ a.user_id
               THEN Set(i, [l1 EXCEPT !.pc = "q_resolve_org"])
               ELSE Set(i, [l1 EXCEPT !.pc = "returned",
                                      !.result = Some(response_data(st2, f))])

\* _save_query_to_db: the organization was selected; Thread(...) is built
\* (len() of a search_results that is None raises) and added
QResolveOrg(i) ==
    LET l == inv[i]
        f == l.final.val
        id == NewThreadId(i)
    IN /\ l.pc = "q_resolve_org"
       /\ DbUnchanged
       /\ IF ~Get(l.state, "search_results", Some(<<>>)).some
          THEN Set(i, Propagate(l, [type |-> "TypeError", msg |-> M_len_none]))
          ELSE Set(i, [l EXCEPT
                 !.pc = "q_commit",
                 !.session =
                     <<[kind |-> "thread", id |-> id,
                        row |-> [query_text |-> l.args.query,
                                 result |-> f.response,
                                 confidence_score |-> f.confidence_score,
                                 sources |-> f.citations,
                                 agent_steps |-> AgentSteps(l.state)]]>>])

QCommit(i) ==
    LET l == inv[i]
    IN /\ l.pc = "q_commit"
       /\ Commit(l)
       /\ Set(i, [Mark(l, "persist_query_thread") EXCEPT
                     !.pc = "q_refresh", !.session = <<>>])

\* the row was refreshed; process_query returns response_data with thread_id
QRefresh(i) ==
    LET l == inv[i]
    IN /\ l.pc = "q_refresh"
       /\ DbUnchanged
       /\ Set(i, [l EXCEPT
                 !.pc = "returned", !.saved_thread_id = NewThreadId(i),
                 !.result = Some(response_data(l.state, l.final.val)
                                     @@ [thread_id |-> NewThreadId(i)])])

\* a database call raised
DbRaise(i) ==
    LET l == inv[i]
    IN /\ l.pc \in DbAwaits
       /\ DbUnchanged
       /\ \E e \in CollaboratorErrors :
            Set(i, Propagate([l EXCEPT !.faults = @ \cup {"db_raised"}], e))

\* the language model raised: before the first chunk, between two chunks, or
\* in place of the batch answer
LlmRaiseSavingPartial(i) ==
    LET l == inv[i]
        partial == [response |-> l.full_response, citations |-> <<>>,
                    confidence_score |-> 0]
    IN /\ l.pc \in LlmAwaits
       /\ db_threads' = db_threads
       /\ db_messages' =
              IF l.saved_thread_id # "None"
              THEN Append(db_messages, AssistantWrites(l, l.state, partial)[1].row)
              ELSE db_messages
       /\ \E e \in CollaboratorErrors :
            Set(i, Propagate([l EXCEPT !.faults = @ \cup {"llm_raised"}], e))
LlmRaise(i) ==
    LET l == inv[i]
    IN /\ l.pc \in LlmAwaits
       /\ DbUnchanged
       /\ \E e \in CollaboratorErrors :
            Set(i, Propagate([l EXCEPT !.faults = @ \cup {"llm_raised"}], e))

\* async with asyncio.timeout(THREAD_TIMEOUT_SECONDS): the deadline passes
\* while the pipeline is suspended.  The await raises CancelledError, which
\* except Exception does not catch, and the context manager raises
\* TimeoutError in its place.
Timeout(i) ==
    LET l == inv[i]
        l1 == [l EXCEPT !.deadline_elapsed = TRUE, !.faults = @ \cup {"timeout"}]
    IN /\ l.args.entry = "generate_sse_events"
       /\ l.pc \in Awaits
       /\ DbUnchanged
       /\ IF l.pc = "search"
             /\ retrieve_context_catches([type |-> "CancelledError", msg |-> <<>>])
          THEN Set(i, EnterGenerate(
                          [l1 EXCEPT !.state = retrieve_context_failed(@)]))
          ELSE Set(i, Propagate(l1, [type |-> "TimeoutError", msg |-> <<>>]))

Next ==
    \/ \E i \in DOMAIN inv : CallStream(i)
    \/ \E i \in DOMAIN inv : LoadThread(i)
    \/ \E i \in DOMAIN inv : ResolveOrg(i)
    \/ \E i \in DOMAIN inv : CommitThread(i)
    \/ \E i \in DOMAIN inv : RefreshThread(i)
    \/ \E i \in DOMAIN inv : CommitUser(i)
    \/ \E i \in DOMAIN inv : SearchReturn(i)
    \/ \E i \in DOMAIN inv : SearchRaise(i)
    \/ \E i \in DOMAIN inv : StreamChunk(i)
    \/ \E i \in DOMAIN inv : StreamEnd(i)
    \/ \E i \in DOMAIN inv : UpdateThread(i)
    \/ \E i \in DOMAIN inv : CommitAssistant(i)
    \/ \E i \in DOMAIN inv : CallQuery(i)
    \/ \E i \in DOMAIN inv : Invoke(i)
    \/ \E i \in DOMAIN inv : QResolveOrg(i)
    \/ \E i \in DOMAIN inv : QCommit(i)
    \/ \E i \in DOMAIN inv : QRefresh(i)
    \/ \E i \in DOMAIN inv : DbRaise(i)
    \/ \E i \in DOMAIN inv : LlmRaise(i)
    \/ \E i \in DOMAIN inv : Timeout(i)

Spec == Init /\ [][Next]_vars

(***************************************************************************)
(* Vocabulary of the properties                                            *)
(***************************************************************************)
Range(s) == { s[k] : k \in 1..Len(s) }
Positions(s, x) == { k \in 1..Len(s) : s[k] = x }
TypesOf(events) == [k \in 1..Len(events) |-> events[k].type]
\* the events the client of generate_sse_events received
Received(l) == [k \in 1..Len(l.sse) |-> l.sse[k].data]
IsSse(l) == l.args.entry = "generate_sse_events"
IsStreaming(l) == l.args.entry \in {"generate_sse_events", "process_thread_stream"}
TokenContents(events) ==
    LET tokens == SelectSeq(events, LAMBDA e : e.type = "token")
    IN [k \in 1..Len(tokens) |-> tokens[k].content]
AssistantRows(messages) ==
    SelectSeq(messages, LAMBDA m : m.message_role = "assistant")
UserRowOf(l) == UserMessage(l.saved_thread_id, l.args.query).row
\* the thread row as it was before step 7
ThreadRowBefore(l) ==
    IF l.saved_thread_id = ExistingThread
    THEN InitialThreads[ExistingThread]
    ELSE NewThread(l.saved_thread_id, l.args.query).row

(***************************************************************************)
(* C1  Every run of generate_sse_events sends exactly one terminal event:  *)
(* at any moment at most one done or error has been sent and nothing after *)
(* it, a terminal event has been sent exactly when the run has ended, a run *)
(* that has not ended is suspended at one of the pipeline's awaits, and no *)
(* exception leaves the generator.                                         *)
(***************************************************************************)
C1_OneTerminalEvent ==
    \A i \in DOMAIN inv :
        LET l == inv[i]
            types == TypesOf(Received(l))
            terminal == { k \in 1..Len(types) : types[k] \in {"done", "error"} }
        IN IsSse(l) =>
            /\ Cardinality(terminal) <= 1
            /\ \A k \in terminal : k = Len(types)
            /\ (l.pc \in Finished <=> Cardinality(terminal) = 1)
            /\ (l.pc \notin Finished => l.pc \in Awaits \cup {"call"})
            /\ ~l.raised.some

\* a run ended by the timeout after a token had been sent
C1_Witness ==
    \E i \in DOMAIN inv :
        LET l == inv[i]
        IN /\ IsSse(l) /\ l.pc = "closed" /\ l.deadline_elapsed
           /\ "token" \in Range(TypesOf(Received(l)))
           /\ Received(l)[Len(l.sse)].type = "error"

(***************************************************************************)
(* C2  Within one process_thread_stream invocation the token events carry  *)
(* the generated fragments, one each, in generation order; the citations   *)
(* event (at most one) and the done event come after every token event,    *)
(* and citations comes before done.                                        *)
(***************************************************************************)
C2_TokenOrder ==
    \A i \in DOMAIN inv :
        LET l == inv[i]
            types == TypesOf(l.events)
        IN IsStreaming(l) =>
            /\ TokenContents(l.events) = l.fragments
            /\ \A j \in Positions(types, "token") :
                 \A k \in Positions(types, "citations") \cup Positions(types, "done") :
                    j < k
            /\ \A j \in Positions(types, "citations") :
                 \A k \in Positions(types, "done") : j < k
            /\ Cardinality(Positions(types, "citations")) <= 1
            /\ Cardinality(Positions(types, "done")) <= 1

\* a completed run with two tokens, a citations event and done
C2_Witness ==
    \E i \in DOMAIN inv :
        LET l == inv[i]
            types == TypesOf(l.events)
        IN /\ IsStreaming(l) /\ l.pc = "returned"
           /\ Len(l.fragments) >= 2
           /\ l.fragments[1] # l.fragments[2]
           /\ Positions(types, "citations") # {}
           /\ types[Len(types)] = "done"

(***************************************************************************)
(* C3  If the deadline passes during a streaming invocation, the client    *)
(* receives exactly one error event, with error_code TIMEOUT, and no done  *)
(* event; no assistant turn is persisted; a user turn persisted before it  *)
(* is still there.                                                         *)
(***************************************************************************)
C3_Timeout ==
    \A i \in DOMAIN inv :
        LET l == inv[i]
            received == Received(l)
            errors == SelectSeq(received, LAMBDA e : e.type = "error")
        IN l.deadline_elapsed =>
            /\ l.pc = "closed"
            /\ Len(errors) = 1
            /\ errors[1].error_code = "TIMEOUT"
            /\ "done" \notin Range(TypesOf(received))
            /\ AssistantRows(db_messages) = AssistantRows(InitialMessages)
            /\ ("persist_assistant" \notin Range(l.trace))
            /\ ("persist_user" \in Range(l.trace) => UserRowOf(l) \in Range(db_messages))

\* the deadline passed while the commit of the assistant turn was awaited,
\* after the user turn had been persisted and a token sent
C3_Witness ==
    \E i \in DOMAIN inv :
        LET l == inv[i]
        IN /\ l.deadline_elapsed
           /\ "persist_user" \in Range(l.trace)
           /\ "token" \in Range(TypesOf(Received(l)))
           /\ Len(l.session) = 2
           /\ l.session[1].row.message_role = "assistant"

(***************************************************************************)
(* C4  If the language-model stream raises, after any number of fragments, *)
(* the run under generate_sse_events ends with a single error event, the   *)
(* exception does not reach the client, no done and no citations event is  *)
(* sent, no assistant turn is persisted and the thread row keeps its       *)
(* fields; the tokens sent stay sent and the persisted user turn stays.    *)
(***************************************************************************)
C4_StreamFailure ==
    \A i \in DOMAIN inv :
        LET l == inv[i]
            received == Received(l)
            types == TypesOf(received)
        IN (IsSse(l) /\ "llm_raised" \in l.faults) =>
            /\ l.pc = "closed"
            /\ ~l.raised.some
            /\ Cardinality(Positions(types, "error")) = 1
            /\ types[Len(types)] = "error"
            /\ "done" \notin Range(types)
            /\ "citations" \notin Range(types)
            /\ TokenContents(received) = l.fragments
            /\ AssistantRows(db_messages) = AssistantRows(InitialMessages)
            /\ (l.saved_thread_id # "None" =>
                   /\ db_threads[l.saved_thread_id] = ThreadRowBefore(l)
                   /\ UserRowOf(l) \in Range(db_messages))

\* the stream raised after a fragment, in a run that had persisted its user turn
C4_Witness ==
    \E i \in DOMAIN inv :
        LET l == inv[i]
        IN /\ IsSse(l) /\ "llm_raised" \in l.faults
           /\ Len(l.fragments) >= 1
           /\ l.saved_thread_id # "None"

\* the text the language model generated, and the citations found in it
Generated(l) ==
    IF IsStreaming(l) THEN Concat(l.fragments) ELSE l.state.response.val
Extracted(l) ==
    extract_citations(Generated(l), l.state.context, l.state.search_results)
LastOf(s) == s[Len(s)]

(***************************************************************************)
(* C5  If retrieval raises inside process_thread_stream, the invocation    *)
(* does not fail for it: context and search_results are empty, the model   *)
(* is called with the no-context fallback prompt, no citations event is    *)
(* emitted, and a run nothing else interrupts ends in done with            *)
(* context_used false, num_sources 0 and confidence 0.                     *)
(***************************************************************************)
C5_RetrievalFailure ==
    \A i \in DOMAIN inv :
        LET l == inv[i]
        IN (IsStreaming(l) /\ "search_raised" \in l.faults) =>
            /\ l.state.context = <<>>
            /\ l.state.search_results = Some(<<>>)
            /\ l.llm_messages.some
            /\ LastOf(l.llm_messages.val).content.template = "no_context"
            /\ LastOf(l.llm_messages.val).content.fallback = NO_CONTEXT_FALLBACK_MESSAGE
            /\ "citations" \notin Range(TypesOf(l.events))
            /\ (l.pc \in Finished /\ l.faults = {"search_raised"} => l.pc = "returned")
            /\ (l.pc = "returned" =>
                   LET done == LastOf(l.events)
                   IN /\ done.type = "done"
                      /\ done.context_used = FALSE
                      /\ done.num_sources = 0
                      /\ done.confidence_score = 0)

\* retrieval raised and the run still streamed an answer and completed
C5_Witness ==
    \E i \in DOMAIN inv :
        LET l == inv[i]
        IN /\ IsStreaming(l) /\ "search_raised" \in l.faults
           /\ l.pc = "returned"
           /\ Len(l.fragments) >= 1

(***************************************************************************)
(* C6  process_thread_stream called with save_to_db true and no user_id,   *)
(* or with neither space_id nor organization_id, fails with an input error *)
(* before it emits an event, touches the database, retrieves or generates. *)
(***************************************************************************)
C6_InputRejected ==
    \A i \in DOMAIN inv :
        LET l == inv[i]
            a == l.args
        IN (/\ a.entry = "process_thread_stream"
            /\ a.save_to_db
            /\ (~a.user_id \/ ~(a.space_id \/ a.organization_id))) =>
            /\ l.pc \in {"call", "raised"}
            /\ l.events = <<>>
            /\ l.trace = <<>>
            /\ l.search_calls = 0
            /\ ~l.llm_messages.some
            /\ db_messages = InitialMessages
            /\ db_threads = InitialThreads

\* the turns persisted for the thread before this invocation
PriorTurns ==
    LET prior == MessagesOf(InitialMessages, ExistingThread)
    IN [k \in 1..Len(prior) |->
            [role |-> prior[k].message_role, content |-> prior[k].content]]

(***************************************************************************)
(* C7  When process_thread_stream continues an existing thread, the state  *)
(* generate_response_streaming receives holds conversation_history, the    *)
(* thread's prior turns, and the model's messages include them.            *)
(***************************************************************************)
C7_HistoryInState ==
    \A i \in DOMAIN inv :
        LET l == inv[i]
            a == l.args
        IN (IsStreaming(l) /\ a.thread_id = ExistingThread /\ a.db
              /\ l.llm_messages.some) =>
            /\ "conversation_history" \in DOMAIN l.state
            /\ Get(l.state, "conversation_history", <<>>) = PriorTurns
            /\ Len(l.llm_messages.val) = 2 + Len(PriorTurns)

(***************************************************************************)
(* C8  Within one streaming invocation with persistence requested: the     *)
(* user turn (and a new thread) is persisted and start emitted before      *)
(* retrieval, generation and the first token; the assistant turn is        *)
(* persisted after the last token, citation extraction and confidence, and *)
(* before done; at most one user and one assistant turn are persisted.     *)
(***************************************************************************)
C8_PersistenceOrder ==
    \A i \in DOMAIN inv :
        LET l == inv[i]
            a == l.args
            P(x) == Positions(l.trace, x)
            Before(x, k) == \E j \in P(x) : j < k
        IN (IsStreaming(l) /\ a.save_to_db /\ a.db) =>
            /\ \A k \in P("search") \cup P("llm_call") \cup P("token") :
                 /\ Before("persist_user", k)
                 /\ Before("start", k)
                 /\ (a.thread_id = "None" => Before("persist_thread", k))
            /\ \A k \in P("persist_assistant") :
                 /\ \A j \in P("token") : j < k
                 /\ Before("extract_citations", k)
                 /\ Before("confidence", k)
            /\ \A k \in P("done") : Before("persist_assistant", k)
            /\ Cardinality(P("persist_user")) <= 1
            /\ Cardinality(P("persist_assistant")) <= 1

(***************************************************************************)
(* C9  When the caller supplies a non-empty context, process_query and     *)
(* process_thread_stream skip retrieval, and generation and citation       *)
(* extraction use exactly the supplied context.                            *)
(***************************************************************************)
C9_SuppliedContext ==
    \A i \in DOMAIN inv :
        LET l == inv[i]
            a == l.args
        IN (Truthy(a.context) /\ l.llm_messages.some) =>
            /\ l.search_calls = 0
            /\ "search" \notin Range(l.trace)
            /\ l.state.context = a.context.val
            /\ LastOf(l.llm_messages.val).content =
                   [template |-> "context", context |-> a.context.val,
                    query |-> a.query]
            /\ (l.final.some =>
                   l.final.val.citations =
                       extract_citations(Generated(l), a.context.val,
                                         l.state.search_results))

Returns(v) == [raised |-> "None", val |-> v]
Raises(e) == [raised |-> e, val |-> <<>>]

\* the loop of deduplicate_citations; citation["k"] on a missing key raises
RECURSIVE DeduplicateLoop(_, _, _)
DeduplicateLoop(citations, seen, deduplicated) ==
    IF citations = <<>> THEN Returns(deduplicated)
    ELSE LET citation == Head(citations)
         IN IF ~({"document_id", "chunk_index"} \subseteq DOMAIN citation)
            THEN Raises("KeyError")
            ELSE LET key == <<citation.document_id, citation.chunk_index>>
                 IN IF key \notin seen
                    THEN DeduplicateLoop(Tail(citations), seen \cup {key},
                                         Append(deduplicated, citation))
                    ELSE IF "document_title" \notin DOMAIN citation
                    THEN Raises("KeyError")
                    ELSE DeduplicateLoop(Tail(citations), seen, deduplicated)

\* deduplicate_citations that returns its input
deduplicate_citations_kept(citations) == Returns(citations)

deduplicate_citations(citations) == DeduplicateLoop(citations, {}, <<>>)

\* sorted(key=(-similarity_score, relevance_rank or 999)): stable, ascending
RankKeyLeq(a, b) ==
    \/ a.similarity_score > b.similarity_score
    \/ /\ a.similarity_score = b.similarity_score
       /\ Get(a, "relevance_rank", 999) <= Get(b, "relevance_rank", 999)

RECURSIVE InsertRanked(_, _)
InsertRanked(x, sorted) ==
    IF sorted = <<>> THEN <<x>>
    ELSE IF RankKeyLeq(Head(sorted), x)
         THEN <<Head(sorted)>> \o InsertRanked(x, Tail(sorted))
         ELSE <<x>> \o sorted

RECURSIVE SortRanked(_)
SortRanked(citations) ==
    IF citations = <<>> THEN <<>>
    ELSE LET n == Len(citations)
         IN InsertRanked(citations[n], SortRanked(SubSeq(citations, 1, n - 1)))

rank_citations_by_relevance(citations) ==
    IF \E k \in 1..Len(citations) : "similarity_score" \notin DOMAIN citations[k]
    THEN Raises("KeyError")
    ELSE Returns(SortRanked(citations))
(***************************************************************************)
(* chunking_service.py: chunk_text.  A sentence is its token count; the    *)
(* token count of sentences joined by spaces is the sum of theirs.  A      *)
(* chunk is [sentences, token_count].                                      *)
(***************************************************************************)
chunk_size == 750
overlap == 100
min_chunk_size == 500
max_chunk_size == 1000

\* _create_chunk
create_chunk(sentences) ==
    [sentences |-> sentences, token_count |-> SumSeq(sentences)]

\* _get_overlap_sentences: the longest run of final sentences within the limit
RECURSIVE OverlapFrom(_, _, _)
OverlapFrom(sentences, overlap_tokens, total_tokens) ==
    IF sentences = <<>> THEN <<>>
    ELSE LET sentence_tokens == sentences[Len(sentences)]
         IN IF total_tokens + sentence_tokens > overlap_tokens THEN <<>>
            ELSE Append(OverlapFrom(SubSeq(sentences, 1, Len(sentences) - 1),
                                    overlap_tokens,
                                    total_tokens + sentence_tokens),
                        sentence_tokens)
get_overlap_sentences(sentences, overlap_tokens) ==
    IF sentences = <<>> \/ overlap_tokens <= 0 THEN <<>>
    ELSE OverlapFrom(sentences, overlap_tokens, 0)

\* the remaining sentences after the loop: a chunk of their own, or merged
\* into the last chunk when below min_chunk_size
final_chunks(chunks, current_sentences) ==
    IF current_sentences = <<>> THEN chunks
    ELSE IF SumSeq(current_sentences) >= min_chunk_size \/ chunks = <<>>
    THEN Append(chunks, create_chunk(current_sentences))
    ELSE LET last_chunk == chunks[Len(chunks)]
         IN [chunks EXCEPT ![Len(chunks)] =
                create_chunk(last_chunk.sentences \o current_sentences)]

\* the loop over the sentences
RECURSIVE ChunkLoop(_, _, _)
ChunkLoop(sentences, chunks, current_sentences) ==
    IF sentences = <<>> THEN final_chunks(chunks, current_sentences)
    ELSE LET sentence_tokens == Head(sentences)
             over == /\ SumSeq(current_sentences) + sentence_tokens
                            > max_chunk_size
                     /\ current_sentences # <<>>
             chunks1 == IF over
                        THEN Append(chunks, create_chunk(current_sentences))
                        ELSE chunks
             current1 == IF over
                         THEN get_overlap_sentences(current_sentences, overlap)
                         ELSE current_sentences
             current2 == Append(current1, sentence_tokens)
             full == SumSeq(current2) >= chunk_size
             chunks2 == IF full THEN Append(chunks1, create_chunk(current2))
                        ELSE chunks1
             current3 == IF full THEN get_overlap_sentences(current2, overlap)
                         ELSE current2
         IN ChunkLoop(Tail(sentences), chunks2, current3)

chunk_text(sentences) == ChunkLoop(sentences, <<>>, <<>>)
(***************************************************************************)
(* citation_service.py: detect_hallucinations.  An issue is a record that  *)
(* names the check that raised it; quality_score is in units of 1/10000.   *)
(***************************************************************************)
\* hallucination_keywords, as the code spells them
K_knowledge == <<"a", "c", "c", "o", "r", "d", "i", "n", "g", " ", "t", "o", " ", "m",
      "y", " ", "k", "n", "o", "w", "l", "e", "d", "g", "e">>
K_far == <<"a", "s", " ", "f", "a", "r", " ", "a", "s", " ", "I", " ", "k", "n",
      "o", "w">>
K_general == <<"i", "n", " ", "g", "e", "n", "e", "r", "a", "l">>
K_typically == <<"t", "y", "p", "i", "c", "a", "l", "l", "y">>
K_usually == <<"u", "s", "u", "a", "l", "l", "y">>
K_common == <<"i", "t", " ", "i", "s", " ", "c", "o", "m", "m", "o", "n">>
hallucination_keywords ==
    <<K_knowledge, K_far, K_general, K_typically, K_usually, K_common>>

\* each check gives <<issues, deduction>>
\* Check 1 without its elif branch
check_citation_indices_only(response, context_chunks, citations) ==
    LET max_index == Len(context_chunks)
        invalid == SelectSeq(citations, LAMBDA c :
                       Get(c, "index", 0) < 1 \/ Get(c, "index", 0) > max_index)
    IN <<[k \in 1..Len(invalid) |->
             [issue |-> "invalid_index", citation_num |-> Get(invalid[k], "index", 0)]],
         2000 * Len(invalid)>>
\* Check 1: citation indices, or no citations despite context
check_citation_indices(response, context_chunks, citations) ==
    LET max_index == Len(context_chunks)
        invalid == SelectSeq(citations, LAMBDA c :
                       Get(c, "index", 0) < 1 \/ Get(c, "index", 0) > max_index)
    IN IF citations # <<>>
       THEN <<[k \in 1..Len(invalid) |->
                  [issue |-> "invalid_index",
                   citation_num |-> Get(invalid[k], "index", 0)]],
              2000 * Len(invalid)>>
       ELSE IF context_chunks # <<>> /\ Len(response) > 50
       THEN <<(<<[issue |-> "no_citations"]>>), 3000>>
       ELSE <<(<<>>), 0>>

\* Check 2: citation markers in the response
check_citation_markers(response, context_chunks) ==
    LET citation_markers == Range(FindAll(response, 1))
    IN IF context_chunks # <<>> /\ citation_markers = {}
       THEN <<(<<[issue |-> "no_markers"]>>), 2000>>
       ELSE <<(<<>>), 0>>

\* Check 3: citations of very low relevance (< 0.4)
check_relevance(citations) ==
    LET low_quality_citations ==
            SelectSeq(citations, LAMBDA c : Get(c, "similarity_score", 0) < 4000)
    IN IF citations # <<>> /\ low_quality_citations # <<>>
       THEN <<(<<[issue |-> "low_relevance",
                  count |-> Len(low_quality_citations)]>>),
              1000 * Len(low_quality_citations)>>
       ELSE <<(<<>>), 0>>

\* Check 4: the first keyword found in response.lower(), then break
check_indicators(response, context_chunks) ==
    LET response_lower == Lower(response)
        found == { k \in 1..Len(hallucination_keywords) :
                     /\ Contains(response_lower, hallucination_keywords[k])
                     /\ Len(context_chunks) > 0 }
    IN IF found # {}
       THEN <<(<<[issue |-> "indicator",
                  keyword |-> hallucination_keywords[
                                  CHOOSE k \in found : \A j \in found : k <= j]]>>),
              1000>>
       ELSE <<(<<>>), 0>>

\* detect_hallucinations whose verdict is the score threshold alone
detect_hallucinations_by_score(response, context_chunks, citations) ==
    LET c1 == check_citation_indices(response, context_chunks, citations)
        c2 == check_citation_markers(response, context_chunks)
        c3 == check_relevance(citations)
        c4 == check_indicators(response, context_chunks)
        issues == c1[1] \o c2[1] \o c3[1] \o c4[1]
        quality_score ==
            Max(0, Min(10000, 10000 - c1[2] - c2[2] - c3[2] - c4[2]))
    IN [is_valid |-> quality_score >= 6000, issues |-> issues,
        quality_score |-> quality_score,
        num_citations |-> Len(citations),
        num_context_chunks |-> Len(context_chunks)]
detect_hallucinations(response, context_chunks, citations) ==
    LET c1 == check_citation_indices(response, context_chunks, citations)
        c2 == check_citation_markers(response, context_chunks)
        c3 == check_relevance(citations)
        c4 == check_indicators(response, context_chunks)
        issues == c1[1] \o c2[1] \o c3[1] \o c4[1]
        quality_score ==
            Max(0, Min(10000, 10000 - c1[2] - c2[2] - c3[2] - c4[2]))
        is_valid == quality_score >= 6000 /\ Len(issues) = 0
    IN [is_valid |-> is_valid, issues |-> issues,
        quality_score |-> quality_score,
        num_citations |-> Len(citations),
        num_context_chunks |-> Len(context_chunks)]

(***************************************************************************)
(* The functions of the pipeline called on their own.  An invocation is    *)
(* the record [pc, args, result]; args.entry names the function.           *)
(***************************************************************************)
\* most words in an exception message
MaxWords == 2

W_openai == <<"O", "p", "e", "n", "A", "I">>
W_rate_limit == <<"r", "a", "t", "e", " ", "l", "i", "m", "i", "t">>
W_Rate_Limit == <<"R", "a", "t", "e", " ", "L", "i", "m", "i", "t">>
W_api == <<"A", "P", "I">>
W_connection == <<"c", "o", "n", "n", "e", "c", "t", "i", "o", "n">>
W_database == <<"D", "a", "t", "a", "b", "a", "s", "e">>
W_capital == <<"c", "a", "p", "i", "t", "a", "l">>
W_failed == <<"f", "a", "i", "l", "e", "d">>
ErrorWords ==
    {W_openai, W_rate_limit, W_Rate_Limit, W_api, W_connection, W_database,
     W_capital, W_failed}

\* " ".join(words)
RECURSIVE Join(_)
Join(words) ==
    IF Len(words) = 0 THEN <<>>
    ELSE IF Len(words) = 1 THEN words[1]
    ELSE words[1] \o <<" ">> \o Join(Tail(words))

\* the exceptions generate_sse_events' except Exception clause can be handed
CategorizeCalls ==
    { [pc |-> "call", result |-> None,
       args |-> [entry |-> "CategorizedEvent", words |-> w,
                 e |-> [type |-> "Exception", msg |-> Join(w)]]] :
        w \in UNION { [1..n -> ErrorWords] : n \in 1..MaxWords } }

\* most chunks handed to trim_context_to_budget
MaxTrim == 3
\* the rows it can be handed: those of the search and one short chunk
TrimPool ==
    Pool \cup
    { [chunk_text |-> "p1", document_id |-> "d3", document_title |-> "doc3",
       chunk_index |-> 0, similarity_score |-> 7000, page_number |-> 1,
       start_char |-> 0, end_char |-> 3] }
TrimLists ==
    { s \in UNION { [1..n -> TrimPool] : n \in 0..MaxTrim } :
        \A i, j \in 1..Len(s) : i # j => s[i] # s[j] }
Budgets == {0, 2000, 5000, MAX_CONTEXT_TOKENS, 9000, 11000}
TrimCalls ==
    UNION { { [pc |-> "call", result |-> None,
               args |-> [entry |-> "trim_context_to_budget",
                         chunks |-> [k \in 1..Len(s) |-> s[k].chunk_text],
                         search_results |-> r, max_tokens |-> b]] :
                r \in {None, Some(s)}, b \in Budgets } : s \in TrimLists }

\* most pieces in an answer handed to extract_citations
MaxPieces == 3
CitePieces ==
    { <<"a">>, <<"[", "1", "]">>, <<"[", "2", "]">>, <<"[", "3", "]">>,
      <<"[", "0", "]">>, <<"[", "1", "2", "]">>, <<"[">>, <<"1", "]">> }
CiteAnswers ==
    { Concat(p) : p \in UNION { [1..n -> CitePieces] : n \in 0..MaxPieces } }
RowOf(text) == CHOOSE r \in TrimPool : r.chunk_text = text
\* context with no search results, with one result per chunk, with fewer
CiteContexts ==
    { <<(<<>>), None>>,
      <<(<<"c1">>), None>>,
      <<(<<"c1">>), Some(<<RowOf("c1")>>)>>,
      <<(<<"c2", "c1">>), Some(<<RowOf("c2"), RowOf("c1")>>)>>,
      <<(<<"c2", "c1">>), Some(<<RowOf("c2")>>)>> }
ExtractCalls ==
    { [pc |-> "call", result |-> None,
       args |-> [entry |-> "extract_citations", response |-> t,
                 context |-> c[1], search_results |-> c[2]]] :
        t \in CiteAnswers, c \in CiteContexts }

\* most pieces in an answer handed to detect_hallucinations
MaxParts == 3
\* a filler longer than the 50 characters of a trivial answer
Filler == [k \in 1..51 |-> "x"]
AnswerParts ==
    { Filler, <<"[", "1", "]">>, <<"[", "9", "]">>, K_typically, K_usually,
      K_far }
Answers ==
    { Concat(p) : p \in UNION { [1..n -> AnswerParts] : n \in 0..MaxParts } }
\* the search results behind a context
ResultsBehind(context_chunks) ==
    IF context_chunks = <<>> THEN None
    ELSE Some([k \in 1..Len(context_chunks) |-> RowOf(context_chunks[k])])
\* the citations extract_citations passes on, none, one with an index no
\* chunk has, one of low relevance
CitationLists(response, context_chunks) ==
    { extract_citations(response, context_chunks, ResultsBehind(context_chunks)),
      <<>>,
      <<[index |-> 9, text |-> "c1"]>>,
      <<[index |-> 1, text |-> "c1", similarity_score |-> 3000]>> }
DetectCalls ==
    UNION { { [pc |-> "call", result |-> None,
               args |-> [entry |-> "detect_hallucinations", response |-> t,
                         context_chunks |-> c, citations |-> z]] :
                z \in CitationLists(t, c) } :
            t \in Answers, c \in { <<>>, <<"c1">> } }

\* most results and most citations handed to calculate_overall_confidence
MaxScores == 4
MaxCitations == 4
\* similarity scores in [0, 1]
Scores == {0, 4000, 5200, 5800, 9700, 10000}
ScoredResults ==
    { [k \in 1..Len(s) |-> [similarity_score |-> s[k]]] :
        s \in UNION { [1..n -> Scores] : n \in 0..MaxScores } }
ConfidenceCalls ==
    { [pc |-> "call", result |-> None,
       args |-> [entry |-> "calculate_overall_confidence",
                 search_results |-> s, num_citations_used |-> n]] :
        s \in ScoredResults, n \in 0..MaxCitations }

\* most sentences of a text handed to chunk_text
MaxSentences == 4
\* token counts of sentences
SentenceTokens == {40, 60, 300, 400, 700, 1200}
ChunkCalls ==
    { [pc |-> "call", result |-> None,
       args |-> [entry |-> "chunk_text", sentences |-> s]] :
        s \in UNION { [1..n -> SentenceTokens] : n \in 0..MaxSentences } }

\* most entries of a conversation history
MaxHistory == 3
HistoryEntries ==
    { [role |-> "user", content |-> <<"h", "1">>],
      [role |-> "assistant", content |-> <<"h", "2">>],
      [role |-> "system", content |-> <<"s">>],
      [role |-> "user", content |-> <<"h", "3">>] }
Histories == UNION { [1..n -> HistoryEntries] : n \in 0..MaxHistory }
\* the states the two generators can be given
GenerateStates ==
    { [query |-> Query, context |-> c, conversation_history |-> h] :
        c \in { <<>>, <<"c1">>, <<"c2", "c1">> }, h \in Histories }
      \cup { [query |-> Query, context |-> c] : c \in { <<>>, <<"c1">> } }
GenerateCalls ==
    { [pc |-> "call", result |-> None, args |-> [entry |-> e, state |-> st]] :
        e \in {"generate_response", "generate_response_streaming"},
        st \in GenerateStates }

\* the citation lists extract_citations produces
ExtractedLists ==
    { extract_citations(t, c[1], c[2]) : t \in CiteAnswers, c \in CiteContexts }
CitationCalls ==
    { [pc |-> "call", result |-> None,
       args |-> [entry |-> e, citations |-> x]] :
        e \in {"deduplicate_citations", "rank_citations_by_relevance"},
        x \in ExtractedLists }

\* the calls, one set for each function
FnCalls ==
    <<CategorizeCalls, TrimCalls, ExtractCalls, DetectCalls, ConfidenceCalls,
      CitationCalls, GenerateCalls, ChunkCalls>>

InitFn ==
    /\ \E f \in DOMAIN FnCalls : \E c \in FnCalls[f] : inv = (1 :> c)
    /\ db_threads = InitialThreads
    /\ db_messages = InitialMessages

Return(i, value) ==
    /\ Set(i, [inv[i] EXCEPT !.pc = "returned", !.result = Some(value)])
    /\ DbUnchanged

Categorize(i) ==
    LET l == inv[i]
    IN /\ l.pc = "call" /\ l.args.entry = "CategorizedEvent"
       /\ Return(i, CategorizedEvent(l.args.e))

Trim(i) ==
    LET l == inv[i]
        a == l.args
    IN /\ l.pc = "call" /\ a.entry = "trim_context_to_budget"
       /\ Return(i, trim_context_to_budget(a.chunks, a.search_results,
                                           a.max_tokens))

Extract(i) ==
    LET l == inv[i]
        a == l.args
    IN /\ l.pc = "call" /\ a.entry = "extract_citations"
       /\ Return(i, extract_citations(a.response, a.context, a.search_results))

Detect(i) ==
    LET l == inv[i]
        a == l.args
    IN /\ l.pc = "call" /\ a.entry = "detect_hallucinations"
       /\ Return(i, detect_hallucinations(a.response, a.context_chunks,
                                          a.citations))

Confidence(i) ==
    LET l == inv[i]
        a == l.args
    IN /\ l.pc = "call" /\ a.entry = "calculate_overall_confidence"
       /\ Return(i, calculate_overall_confidence(a.search_results,
                                                 a.num_citations_used))

\* the call ends with the exception named by outcome.raised, or returns
Finish(i, outcome) ==
    IF outcome.raised = "None" THEN Return(i, outcome.val)
    ELSE /\ Set(i, [inv[i] EXCEPT !.pc = "raised",
                                   !.result = Some(outcome.raised)])
         /\ DbUnchanged

Deduplicate(i) ==
    LET l == inv[i]
    IN /\ l.pc = "call" /\ l.args.entry = "deduplicate_citations"
       /\ Finish(i, deduplicate_citations(l.args.citations))

RankCitations(i) ==
    LET l == inv[i]
    IN /\ l.pc = "call" /\ l.args.entry = "rank_citations_by_relevance"
       /\ Finish(i, rank_citations_by_relevance(l.args.citations))

\* the message list either generator hands to the language model
BuildMessages(i) ==
    LET l == inv[i]
    IN /\ l.pc = "call"
       /\ l.args.entry \in {"generate_response", "generate_response_streaming"}
       /\ Return(i, build_messages(l.args.state))

ChunkText(i) ==
    LET l == inv[i]
    IN /\ l.pc = "call" /\ l.args.entry = "chunk_text"
       /\ Return(i, chunk_text(l.args.sentences))

NextFn ==
    \/ \E i \in DOMAIN inv : ChunkText(i)
    \/ \E i \in DOMAIN inv : BuildMessages(i)
    \/ \E i \in DOMAIN inv : Deduplicate(i)
    \/ \E i \in DOMAIN inv : RankCitations(i)
    \/ \E i \in DOMAIN inv : Categorize(i)
    \/ \E i \in DOMAIN inv : Trim(i)
    \/ \E i \in DOMAIN inv : Extract(i)
    \/ \E i \in DOMAIN inv : Detect(i)
    \/ \E i \in DOMAIN inv : Confidence(i)

SpecFn == InitFn /\ [][NextFn]_vars

Returned(l, fn) == l.args.entry = fn /\ l.pc = "returned"

(***************************************************************************)
(* C11  The error code follows from the lower-cased exception message with *)
(* fixed precedence: 'rate limit' gives RATE_LIMIT; otherwise 'openai' or  *)
(* 'api' gives API_ERROR; otherwise 'database' or 'connection' gives       *)
(* DATABASE_ERROR; otherwise UNKNOWN.  A message naming OpenAI and a rate  *)
(* limit is RATE_LIMIT; one naming the API and a connection is API_ERROR.  *)
(***************************************************************************)
C11_ErrorCodePrecedence ==
    \A i \in DOMAIN inv :
        LET l == inv[i]
            words == Range(l.args.words)
            m == Lower(l.args.e.msg)
            code == l.result.val.error_code
            rate == Contains(m, P_rate_limit)
            provider == Contains(m, P_openai) \/ Contains(m, P_api)
            database == Contains(m, P_database) \/ Contains(m, P_connection)
        IN Returned(l, "CategorizedEvent") =>
            /\ l.result.val.type = "error"
            /\ rate => code = "RATE_LIMIT"
            /\ (~rate /\ provider) => code = "API_ERROR"
            /\ (~rate /\ ~provider /\ database) => code = "DATABASE_ERROR"
            /\ (~rate /\ ~provider /\ ~database) => code = "UNKNOWN"
            /\ (W_openai \in words /\ words \cap {W_rate_limit, W_Rate_Limit} # {})
                   => code = "RATE_LIMIT"
            /\ ({W_api, W_connection} \subseteq words
                  /\ words \cap {W_rate_limit, W_Rate_Limit} = {})
                   => code = "API_ERROR"

\* a message that names OpenAI and, in capitals, a rate limit was categorized
C11_Witness ==
    \E i \in DOMAIN inv :
        LET l == inv[i]
        IN /\ Returned(l, "CategorizedEvent")
           /\ l.args.words = <<W_openai, W_Rate_Limit>>
           /\ l.result.val.error_code = "RATE_LIMIT"

(***************************************************************************)
(* Two process_thread_stream invocations of the one ai_agent_service, each *)
(* with its own query and its own session, interleaved at their awaits.    *)
(* The first is handed its context and persists nothing; the second        *)
(* retrieves its context and persists, on a new thread or an existing one. *)
(***************************************************************************)
Query2 == <<"r", "?">>
TwoArgs(query, context, save_to_db, thread_id) ==
    [entry |-> "process_thread_stream", query |-> query, db |-> TRUE,
     organization_id |-> FALSE, space_id |-> TRUE, user_id |-> TRUE,
     context |-> context, save_to_db |-> save_to_db, thread_id |-> thread_id]

InitTwo ==
    /\ \E t \in {"None", ExistingThread} :
         inv = (1 :> NewInvocation(TwoArgs(Query, Some(<<"p1">>), FALSE, "None")))
                 @@ (2 :> NewInvocation(TwoArgs(Query2, None, TRUE, t)))
    /\ db_threads = InitialThreads
    /\ db_messages = InitialMessages

NextTwo ==
    \/ \E i \in DOMAIN inv : CallStream(i)
    \/ \E i \in DOMAIN inv : LoadThread(i)
    \/ \E i \in DOMAIN inv : ResolveOrg(i)
    \/ \E i \in DOMAIN inv : CommitThread(i)
    \/ \E i \in DOMAIN inv : RefreshThread(i)
    \/ \E i \in DOMAIN inv : CommitUser(i)
    \/ \E i \in DOMAIN inv : SearchReturn(i)
    \/ \E i \in DOMAIN inv : SearchRaise(i)
    \/ \E i \in DOMAIN inv : StreamChunk(i)
    \/ \E i \in DOMAIN inv : StreamEnd(i)
    \/ \E i \in DOMAIN inv : UpdateThread(i)
    \/ \E i \in DOMAIN inv : CommitAssistant(i)

SpecTwo == InitTwo /\ [][NextTwo]_vars

\* what invocation i alone determines: its arguments and what the model and
\* the search returned to it
OwnOutputs(i) ==
    LET l == inv[i]
        a == l.args
        mine == { m \in Range(db_messages) :
                    /\ m.thread_id = l.saved_thread_id
                    /\ m.message_role = "assistant"
                    /\ m.content = Generated(l)
                    /\ m.message_metadata # <<>> }
    IN /\ TokenContents(l.events) = l.fragments
       /\ l.full_response = Concat(l.fragments)
       /\ l.llm_messages.some =>
            /\ l.state.query = a.query
            /\ LastOf(l.llm_messages.val).content = Prompt(l.state)
            /\ Truthy(a.context) => l.state.context = a.context.val
       /\ l.final.some =>
            /\ l.final.val.response = Generated(l)
            /\ l.final.val.citations = Extracted(l)
            /\ l.final.val.confidence_score = confidence_of(l.state, Extracted(l))
       /\ "persist_assistant" \in Range(l.trace) =>
            \E m \in mine :
                /\ m.message_metadata.citations = Extracted(l)
                /\ m.message_metadata.confidence_score
                       = confidence_of(l.state, Extracted(l))
       /\ "persist_user" \in Range(l.trace) => UserRowOf(l) \in Range(db_messages)

\* a step is a step of one invocation and leaves the other's record alone
OneInvocationSteps ==
    \E i \in DOMAIN inv : \A j \in DOMAIN inv \ {i} : inv'[j] = inv[j]

(***************************************************************************)
(* C12  In every interleaving of two concurrent process_thread_stream      *)
(* invocations, each one's tokens, accumulated text, citations, confidence *)
(* and persisted assistant turn come from its own query, context and       *)
(* generation, no turn of either is lost, and no step of one changes the   *)
(* pipeline state of the other.                                            *)
(***************************************************************************)
C12_Isolation ==
    /\ [](/\ \A i \in DOMAIN inv : OwnOutputs(i)
          /\ Len(AssistantRows(db_messages))
               = Len(AssistantRows(InitialMessages))
                   + Cardinality({ i \in DOMAIN inv :
                                     "persist_assistant" \in Range(inv[i].trace) }))
    /\ [][OneInvocationSteps]_vars

\* both invocations completed with different answers, each citing its own
\* context, and the second persisted its turn with a confidence of its own
C12_Witness ==
    /\ DOMAIN inv = {1, 2}
    /\ \A i \in DOMAIN inv : inv[i].pc = "returned"
    /\ Generated(inv[1]) # Generated(inv[2])
    /\ Extracted(inv[1]) # <<>> /\ Extracted(inv[2]) # <<>>
    /\ Extracted(inv[1])[1].text # Extracted(inv[2])[1].text
    /\ "persist_assistant" \in Range(inv[2].trace)
    /\ inv[2].final.val.confidence_score > 0
    /\ inv[1].final.val.confidence_score = 0

TokensOf(chunks) == SumSeq([k \in 1..Len(chunks) |-> count_tokens(chunks[k])])

(***************************************************************************)
(* C13  For every chunk list, optional relevance list of the same length   *)
(* and max_tokens >= 0, the chunks trim_context_to_budget returns sum to   *)
(* at most max_tokens tokens; a single chunk over the budget yields an     *)
(* empty list.                                                             *)
(***************************************************************************)
C13_WithinBudget ==
    \A i \in DOMAIN inv :
        LET l == inv[i]
            a == l.args
            out == l.result.val
        IN Returned(l, "trim_context_to_budget") =>
            /\ TokensOf(out[1]) <= a.max_tokens
            /\ (Len(a.chunks) = 1 /\ count_tokens(a.chunks[1]) > a.max_tokens)
                   => out[1] = <<>>

\* a single chunk larger than the budget was trimmed away
C13_Witness ==
    \E i \in DOMAIN inv :
        LET l == inv[i]
            a == l.args
        IN /\ Returned(l, "trim_context_to_budget")
           /\ Len(a.chunks) = 1
           /\ a.max_tokens > 0
           /\ count_tokens(a.chunks[1]) > a.max_tokens
           /\ l.result.val[1] = <<>>

\* the positions of the chunks in descending order of similarity_score, equal
\* scores in their original order
ByRelevance(search_results) ==
    LET n == Len(search_results)
        sim(k) == search_results[k].similarity_score
        Rank(k) == 1 + Cardinality({ j \in 1..n :
                        sim(j) > sim(k) \/ (sim(j) = sim(k) /\ j < k) })
    IN [r \in 1..n |-> CHOOSE k \in 1..n : Rank(k) = r]
\* the length of the longest prefix of that order within the budget
LongestPrefix(chunks, order, max_tokens) ==
    LET Fits(r) == TokensOf([q \in 1..r |-> chunks[order[q]]]) <= max_tokens
    IN CHOOSE r \in 0..Len(chunks) :
          Fits(r) /\ \A q \in 0..Len(chunks) : Fits(q) => q <= r

(***************************************************************************)
(* C14  When the total exceeds the budget and relevance scores are given,  *)
(* trim_context_to_budget returns the longest prefix, within max_tokens,   *)
(* of the chunks in descending order of similarity_score: it stops at the  *)
(* first chunk that does not fit, no excluded chunk is more similar than   *)
(* an included one, and the relevance list returned is the same prefix,    *)
(* position by position (no list at all when the prefix is empty).         *)
(***************************************************************************)
C14_RelevancePrefix ==
    \A i \in DOMAIN inv :
        LET l == inv[i]
            a == l.args
            out == l.result.val
            order == ByRelevance(a.search_results.val)
            keep == LongestPrefix(a.chunks, order, a.max_tokens)
            kept == { order[r] : r \in 1..keep }
        IN (/\ Returned(l, "trim_context_to_budget")
            /\ Truthy(a.search_results)
            /\ TokensOf(a.chunks) > a.max_tokens) =>
            /\ out[1] = [r \in 1..keep |-> a.chunks[order[r]]]
            /\ LenOrZero(out[2]) = keep
            /\ \A r \in 1..keep : out[2].val[r] = a.search_results.val[order[r]]
            /\ \A r \in 1..keep : out[2].val[r].chunk_text = out[1][r]
            /\ \A k \in kept : \A j \in (1..Len(a.chunks)) \ kept :
                 a.search_results.val[j].similarity_score
                     <= a.search_results.val[k].similarity_score

\* the most similar chunk was kept, the next did not fit, and a later, less
\* similar chunk that would have fitted was not taken
C14_Witness ==
    \E i \in DOMAIN inv :
        LET l == inv[i]
            a == l.args
            out == l.result.val
            order == ByRelevance(a.search_results.val)
        IN /\ Returned(l, "trim_context_to_budget")
           /\ Truthy(a.search_results)
           /\ Len(a.chunks) = 3
           /\ Len(out[1]) = 1
           /\ order # <<1, 2, 3>>
           /\ TokensOf(out[1]) + count_tokens(a.chunks[order[3]]) <= a.max_tokens

\* the places of text where a marker [digits] starts, and the number there
MarkerEnd(text, i) ==
    { e \in (i + 1)..(Len(text) - 1) :
        /\ text[i] = "["
        /\ \A k \in (i + 1)..e : text[k] \in Digits
        /\ text[e + 1] = "]" }
MarkerStarts(text) == { i \in 1..Len(text) : MarkerEnd(text, i) # {} }
MarkerNumber(text, i) ==
    IntOf(SubSeq(text, i + 1, CHOOSE e \in MarkerEnd(text, i) : TRUE))
\* the k-th smallest member of a set of numbers
Nth(S, k) == CHOOSE x \in S : Cardinality({ y \in S : y < x }) = k - 1

(***************************************************************************)
(* C15  extract_citations emits, in order of occurrence in the answer, one *)
(* citation for every marker [n] with 1 <= n <= len(context) and nothing   *)
(* for any other marker; each citation has index n and text context[n-1];  *)
(* a repeated marker is cited each time, so there are as many citations as *)
(* in-range marker occurrences.                                            *)
(***************************************************************************)
C15_CitationsFollowMarkers ==
    \A i \in DOMAIN inv :
        LET l == inv[i]
            a == l.args
            out == l.result.val
            in_range == { s \in MarkerStarts(a.response) :
                            /\ 1 <= MarkerNumber(a.response, s)
                            /\ MarkerNumber(a.response, s) <= Len(a.context) }
        IN Returned(l, "extract_citations") =>
            /\ Len(out) = Cardinality(in_range)
            /\ \A k \in 1..Len(out) :
                 LET n == MarkerNumber(a.response, Nth(in_range, k))
                 IN /\ out[k].index = n
                    /\ out[k].text = a.context[n]

\* [2][3][1] against two chunks: chunk 2, then chunk 1, nothing for [3]
C15_Witness ==
    \E i \in DOMAIN inv :
        LET l == inv[i]
            a == l.args
            out == l.result.val
        IN /\ Returned(l, "extract_citations")
           /\ Cardinality(MarkerStarts(a.response)) = 3
           /\ Len(a.context) = 2
           /\ Len(out) = 2
           /\ out[1].index = 2 /\ out[1].text = "c1"
           /\ out[2].index = 1 /\ out[2].text = "c2"

(***************************************************************************)
(* C16  An answer holding a marker [N] with N outside 1..len(context),     *)
(* checked with the citations extract_citations passes on for it, is       *)
(* flagged by detect_hallucinations: is_valid is false and issues is not   *)
(* empty, whatever the length of the answer.                               *)
(***************************************************************************)
C16_OutOfRangeFlagged ==
    \A i \in DOMAIN inv :
        LET l == inv[i]
            a == l.args
            out == l.result.val
            out_of_range ==
                { s \in MarkerStarts(a.response) :
                    \/ MarkerNumber(a.response, s) < 1
                    \/ MarkerNumber(a.response, s) > Len(a.context_chunks) }
        IN (/\ Returned(l, "detect_hallucinations")
            /\ a.context_chunks # <<>>
            /\ out_of_range # {}
            /\ a.citations = extract_citations(a.response, a.context_chunks,
                                               ResultsBehind(a.context_chunks))) =>
            /\ out.is_valid = FALSE
            /\ out.issues # <<>>

(***************************************************************************)
(* C17  detect_hallucinations returns is_valid = false for every answer    *)
(* longer than 50 characters when the citation list is empty and           *)
(* context_chunks is not.                                                  *)
(***************************************************************************)
C17_UncitedLongAnswer ==
    \A i \in DOMAIN inv :
        LET l == inv[i]
            a == l.args
            out == l.result.val
        IN (/\ Returned(l, "detect_hallucinations")
            /\ Len(a.response) > 50
            /\ a.citations = <<>>
            /\ a.context_chunks # <<>>) =>
            /\ out.is_valid = FALSE
            /\ [issue |-> "no_citations"] \in Range(out.issues)

\* a long answer with a marker, no citation and no other fault
C17_Witness ==
    \E i \in DOMAIN inv :
        LET l == inv[i]
            a == l.args
        IN /\ Returned(l, "detect_hallucinations")
           /\ Len(a.response) > 50
           /\ a.citations = <<>>
           /\ a.context_chunks # <<>>
           /\ l.result.val.issues = <<[issue |-> "no_citations"]>>
           /\ l.result.val.is_valid = FALSE

\* what an issue costs
Deduction(issue) ==
    CASE issue.issue = "invalid_index" -> 2000
      [] issue.issue = "no_citations" -> 3000
      [] issue.issue = "no_markers" -> 2000
      [] issue.issue = "low_relevance" -> 1000 * issue.count
      [] issue.issue = "indicator" -> 1000

(***************************************************************************)
(* C18  Whenever context_chunks is not empty and the answer contains one   *)
(* of the six indicator phrases, detect_hallucinations appends one         *)
(* hallucination-indicator issue and deducts 0.1 from quality_score once,  *)
(* however many of the phrases occur.                                      *)
(***************************************************************************)
C18_IndicatorOnce ==
    \A i \in DOMAIN inv :
        LET l == inv[i]
            a == l.args
            out == l.result.val
            others == SelectSeq(out.issues, LAMBDA x : x.issue # "indicator")
            indicators == SelectSeq(out.issues, LAMBDA x : x.issue = "indicator")
        IN (/\ Returned(l, "detect_hallucinations")
            /\ a.context_chunks # <<>>
            /\ \E k \in 1..Len(hallucination_keywords) :
                 Contains(a.response, hallucination_keywords[k])) =>
            /\ Len(indicators) = 1
            /\ out.quality_score =
                 Max(0, 10000 - 1000
                          - SumSeq([k \in 1..Len(others) |-> Deduction(others[k])]))

(***************************************************************************)
(* C19  calculate_overall_confidence returns exactly 0.0 for an empty      *)
(* result list whatever num_citations_used is, and a value in [0.0, 1.0]   *)
(* for every non-empty list of scores in [0, 1] and every                  *)
(* num_citations_used >= 0.                                                *)
(***************************************************************************)
C19_ConfidenceRange ==
    \A i \in DOMAIN inv :
        LET l == inv[i]
            a == l.args
            out == l.result.val
        IN Returned(l, "calculate_overall_confidence") =>
            /\ a.search_results = <<>> => out = 0
            /\ 0 <= out /\ out <= 10000

\* a perfect top score with citations: the sum passes 1.0 and is clamped
C19_Witness ==
    \E i \in DOMAIN inv :
        LET l == inv[i]
            a == l.args
        IN /\ Returned(l, "calculate_overall_confidence")
           /\ Len(a.search_results) = 1
           /\ a.search_results[1].similarity_score = 10000
           /\ a.num_citations_used = 3
           /\ l.result.val = 10000

(***************************************************************************)
(* C20  calculate_overall_confidence is monotonically non-decreasing in    *)
(* each of the top-3 similarity scores: raising one of them, the others    *)
(* and num_citations_used fixed, never lowers the confidence returned.     *)
(***************************************************************************)
C20_MonotoneInSimilarity ==
    \A i \in DOMAIN inv :
        LET l == inv[i]
            a == l.args
            s == a.search_results
        IN Returned(l, "calculate_overall_confidence") =>
            \A k \in 1..Min(3, Len(s)) :
                \A v \in { x \in Scores : x > s[k].similarity_score } :
                    calculate_overall_confidence(
                        [s EXCEPT ![k] = [similarity_score |-> v]],
                        a.num_citations_used) >= l.result.val

(***************************************************************************)
(* C21  The penalty of 0.1 is subtracted whenever the standard deviation   *)
(* of the top similarity scores taken (three, or fewer when fewer results  *)
(* exist, a single result having standard deviation 0) is below 0.05, and  *)
(* is not subtracted otherwise.                                            *)
(***************************************************************************)
C21_PenaltyBelowSpread ==
    \A i \in DOMAIN inv :
        LET l == inv[i]
            a == l.args
            similarities == top_similarities(a.search_results)
        IN Returned(l, "calculate_overall_confidence")
               /\ a.search_results # <<>> =>
            l.result.val =
                confidence_with(similarities, a.num_citations_used,
                                IF LowVariance(similarities) THEN 1000 ELSE 0)

(***************************************************************************)
(* C22  The weights of the weighted average favour earlier entries: the    *)
(* first of the top-3 results has the largest weight and each later one a  *)
(* weight no larger than the one before, so moving the higher of two       *)
(* neighbouring scores to the later place never raises the confidence.     *)
(***************************************************************************)
C22_WeightsFavourEarlier ==
    \A i \in DOMAIN inv :
        LET l == inv[i]
            a == l.args
            s == a.search_results
            n == Min(3, Len(s))
        IN Returned(l, "calculate_overall_confidence") =>
            \A k \in 1..(n - 1) :
                /\ weights(n)[k] >= weights(n)[k + 1]
                /\ s[k].similarity_score > s[k + 1].similarity_score =>
                     l.result.val >=
                        calculate_overall_confidence(
                            [s EXCEPT ![k] = s[k + 1], ![k + 1] = s[k]],
                            a.num_citations_used)

\* the key deduplicate_citations compares
KeyOf(citation) == <<citation.document_id, citation.chunk_index>>
\* the places of citations whose key no earlier place holds
FirstPlaces(citations) ==
    { k \in 1..Len(citations) :
        \A j \in 1..(k - 1) : KeyOf(citations[j]) # KeyOf(citations[k]) }

(***************************************************************************)
(* C23  deduplicate_citations keeps, in original order, exactly the first  *)
(* citation for each (document_id, chunk_index): its output has pairwise   *)
(* distinct keys, is a subsequence of its input, and deduplicating it      *)
(* again returns it unchanged.                                             *)
(***************************************************************************)
C23_DeduplicateFirsts ==
    \A i \in DOMAIN inv :
        LET l == inv[i]
            x == l.args.citations
            out == l.result.val
        IN Returned(l, "deduplicate_citations") =>
            /\ \A k \in 1..Len(x) :
                   {"document_id", "chunk_index"} \subseteq DOMAIN x[k]
            /\ Len(out) = Cardinality(FirstPlaces(x))
            /\ \A m \in 1..Len(out) : out[m] = x[Nth(FirstPlaces(x), m)]
            /\ \A m, n \in 1..Len(out) : m # n => KeyOf(out[m]) # KeyOf(out[n])
            /\ deduplicate_citations(out) = Returns(out)

\* a chunk cited twice around another one: the second citation of it goes
C23_Witness ==
    \E i \in DOMAIN inv :
        LET l == inv[i]
            x == l.args.citations
        IN /\ Returned(l, "deduplicate_citations")
           /\ Len(x) = 3 /\ Len(l.result.val) = 2
           /\ KeyOf(x[1]) = KeyOf(x[3]) /\ KeyOf(x[1]) # KeyOf(x[2])

(***************************************************************************)
(* C26  deduplicate_citations, rank_citations_by_relevance and             *)
(* detect_hallucinations never raise on a citation list that               *)
(* extract_citations can produce, citations without retrieval metadata     *)
(* (search_results absent or shorter than the context) included.           *)
(***************************************************************************)
C26_NeverRaises ==
    \A i \in DOMAIN inv :
        inv[i].args.entry \in {"deduplicate_citations",
                               "rank_citations_by_relevance",
                               "detect_hallucinations"}
            => inv[i].pc # "raised"

\* the places of a history that hold a user or an assistant entry
Turns(history) ==
    { k \in 1..Len(history) : history[k].role \in {"user", "assistant"} }

(***************************************************************************)
(* C24  generate_response and generate_response_streaming send the same    *)
(* message list: the system prompt first, then the history entries in      *)
(* their order, user as a human message, assistant as an AI message, any   *)
(* other entry skipped, then one current user message last; the length is  *)
(* 2 plus the number of user and assistant entries; with no context the    *)
(* current message is the query followed by NO_CONTEXT_FALLBACK_MESSAGE.   *)
(***************************************************************************)
C24_MessageList ==
    \A i \in DOMAIN inv :
        LET l == inv[i]
            st == l.args.state
            history == Get(st, "conversation_history", <<>>)
            messages == l.result.val
            n == Len(messages)
        IN /\ l.pc = "returned"
           /\ l.args.entry \in {"generate_response", "generate_response_streaming"}
           =>
            /\ n = 2 + Cardinality(Turns(history))
            /\ messages[1] = [type |-> "system",
                              content |-> [template |-> "SYSTEM_PROMPT"]]
            /\ \A m \in 1..(n - 2) :
                 LET msg == history[Nth(Turns(history), m)]
                 IN messages[1 + m] =
                        [type |-> IF msg.role = "user" THEN "human" ELSE "ai",
                         content |-> [text |-> msg.content]]
            /\ messages[n].type = "human"
            /\ messages[n].content.query = st.query
            /\ st.context = <<>> =>
                 messages[n].content =
                     [template |-> "no_context", query |-> st.query,
                      fallback |-> NO_CONTEXT_FALLBACK_MESSAGE]
            /\ st.context # <<>> =>
                 messages[n].content =
                     [template |-> "context", context |-> st.context,
                      query |-> st.query]

\* a history with a system entry between two turns, and no context
C24_Witness ==
    \E i \in DOMAIN inv :
        LET l == inv[i]
            st == l.args.state
        IN /\ Returned(l, "generate_response_streaming")
           /\ st.context = <<>>
           /\ "conversation_history" \in DOMAIN st
           /\ Len(st.conversation_history) = 3
           /\ st.conversation_history[1].role = "user"
           /\ st.conversation_history[2].role = "system"
           /\ st.conversation_history[3].role = "assistant"
           /\ Len(l.result.val) = 4

(***************************************************************************)
(* C25  On a streaming run with persistence that ends in done, exactly one *)
(* assistant message is persisted for the invocation, on the thread named  *)
(* in the start event; its content is the concatenation, in order, of the  *)
(* content of all token events of the run, and the thread's result field   *)
(* holds the same text.                                                    *)
(***************************************************************************)
C25_OneAssistantMessage ==
    \A i \in DOMAIN inv :
        LET l == inv[i]
            types == TypesOf(l.events)
            starts == Positions(types, "start")
        IN /\ IsStreaming(l) /\ l.pc = "returned"
           /\ l.args.save_to_db /\ starts # {}
           /\ "done" \in Range(types)
           =>
            LET thread == l.events[CHOOSE k \in starts : TRUE].thread_id
                text == Concat(TokenContents(l.events))
                before == AssistantRows(InitialMessages)
                now == AssistantRows(db_messages)
            IN /\ Cardinality(starts) = 1
               /\ Len(now) = Len(before) + 1
               /\ SubSeq(now, 1, Len(before)) = before
               /\ LastOf(now).thread_id = thread
               /\ LastOf(now).content = text
               /\ thread \in DOMAIN db_threads
               /\ db_threads[thread].result = text

\* an answer streamed in two fragments and persisted on a new thread
C25_Witness ==
    \E i \in DOMAIN inv :
        LET l == inv[i]
            types == TypesOf(l.events)
        IN /\ IsStreaming(l) /\ l.pc = "returned"
           /\ l.args.save_to_db /\ l.args.thread_id = "None"
           /\ "start" \in Range(types) /\ "done" \in Range(types)
           /\ Cardinality(Positions(types, "token")) = 2
           /\ LastOf(AssistantRows(db_messages)).content
                  = Concat(TokenContents(l.events))
           /\ LastOf(AssistantRows(db_messages)).content # <<>>

(***************************************************************************)
(* C27  Every chunk returned by chunk_text has a token count of at most    *)
(* max_chunk_size, for every sequence of sentence sizes, a trailing        *)
(* remainder below min_chunk_size merged into the last chunk included.     *)
(***************************************************************************)
C27_ChunkWithinMax ==
    \A i \in DOMAIN inv :
        LET l == inv[i]
            chunks == l.result.val
        IN Returned(l, "chunk_text") =>
            \A k \in 1..Len(chunks) : chunks[k].token_count <= max_chunk_size

(***************************************************************************)
(* C28  detect_hallucinations deducts from quality_score only together     *)
(* with appending an issue: quality_score < 1.0 exactly when issues is     *)
(* non-empty, so is_valid is true if and only if issues is empty and the   *)
(* threshold quality_score >= 0.6 never decides the outcome.               *)
(***************************************************************************)
C28_ValidIffNoIssues ==
    \A i \in DOMAIN inv :
        LET l == inv[i]
            out == l.result.val
        IN Returned(l, "detect_hallucinations") =>
            /\ out.quality_score < 10000 <=> out.issues # <<>>
            /\ out.is_valid <=> out.issues = <<>>
            /\ out.issues = <<>> => out.quality_score >= 6000

\* an answer with one issue and a score that passes the threshold
C28_Witness ==
    \E i \in DOMAIN inv :
        LET l == inv[i]
        IN /\ Returned(l, "detect_hallucinations")
           /\ Len(l.result.val.issues) = 1
           /\ l.result.val.quality_score >= 6000
           /\ ~l.result.val.is_valid

\* retrieve_context was called and has returned
Retrieved(l) ==
    /\ l.llm_messages.some
    /\ l.args.entry = "process_query" \/ ~Truthy(l.args.context)

(***************************************************************************)
(* C29  After retrieve_context returns on any path (no database session,   *)
(* search within budget, trimmed to budget, trimmed to nothing, search     *)
(* failure), context and search_results have the same length, an absent    *)
(* list counting as empty, and context[i] is the text of the chunk of      *)
(* search_results[i]; so a citation with index n carries the text and the  *)
(* document metadata of the same chunk.                                    *)
(***************************************************************************)
C29_ContextMatchesResults ==
    \A i \in DOMAIN inv :
        LET l == inv[i]
            context == l.state.context
            results == IF l.state.search_results.some
                       THEN l.state.search_results.val ELSE <<>>
            citations == l.state.citations
        IN Retrieved(l) =>
            /\ Len(context) = Len(results)
            /\ \A k \in 1..Len(context) : context[k] = results[k].chunk_text
            /\ \A k \in 1..Len(citations) :
                 LET c == citations[k]
                 IN /\ c.index \in 1..Len(results)
                    /\ c.text = results[c.index].chunk_text
                    /\ c.document_id = results[c.index].document_id
                    /\ c.chunk_index = results[c.index].chunk_index

\* the search ran, chunk c1 is the context, and the answer cites it
C29_Witness ==
    \E i \in DOMAIN inv :
        LET l == inv[i]
        IN /\ Retrieved(l) /\ l.pc = "returned"
           /\ l.search_calls = 1
           /\ l.state.context = <<"c1">>
           /\ l.state.search_results.some
           /\ Len(l.state.citations) > 0
           /\ l.state.citations[1].document_id = "d1"

(***************************************************************************)
(* C30  An error event with error_code TIMEOUT is sent only when the       *)
(* deadline of the invocation (THREAD_TIMEOUT_SECONDS) has passed; a       *)
(* timeout-type exception a collaborator raises before the deadline is     *)
(* reported under one of the other error codes.                            *)
(***************************************************************************)
C30_TimeoutOnlyAtDeadline ==
    \A i \in DOMAIN inv :
        LET l == inv[i]
        IN \A k \in 1..Len(l.sse) :
               (l.sse[k].data.type = "error"
                    /\ l.sse[k].data.error_code = "TIMEOUT")
                   => l.deadline_elapsed

====
